---- MODULE Spec2Model ----
(***************************************************************************)
(* A model of the ai-data-copilot backend: CSV ingestion                   *)
(* (app/services/datasets.py), chunking and vector indexing                *)
(* (app/rag/chunking.py, app/rag/vector_store.py, app/services/rag.py)     *)
(* and the chat orchestrator (app/services/chat_service.py).               *)
(*                                                                         *)
(* Text is modelled as a sequence of one-character strings, so that        *)
(* trimming and the "_dup<n>" suffix are computed character by character.  *)
(* The embedding model, the vector index and the text-generation service   *)
(* are external capabilities: the model keeps what the code reads from and *)
(* writes to them.                                                         *)
(***************************************************************************)
EXTENDS Integers, Sequences, FiniteSets, TLC

VARIABLES
    call,        \* SpecPure: one call of a pure function, its arguments and its result
    storage,     \* settings.storage_dir: dataset id -> directory contents, or NoDir
    points,      \* the records of the Qdrant collection settings.rag_collection_name
    collection,  \* vector size of the Qdrant collection, 0 while it does not exist
    settings,    \* the process configuration read by the handlers (LLM fields, embedding size)
    procs,       \* the requests in flight: position in the handler, locals, result
    clock,       \* datetime.now(): one tick per index build
    failed_ids   \* history: ids of the datasets whose create_dataset raised

vars == <<call, storage, points, collection, settings, procs, clock, failed_ids>>

(***************************************************************************)
(* Bounds of the model.                                                    *)
(***************************************************************************)
MaxCols == 3        \* longest header row drawn for _normalize_columns
MaxFileRows == 6    \* most data rows in a file given to _build_metadata
MaxChunkSize == 3   \* chunk sizes drawn for _iter_csv_chunks (10000 in the code)
SampleRows == 2     \* settings.sample_rows (50000 by default)
MaxTotalRows == 7   \* most data rows in a file given to iter_row_docs
MaxMaxRows == 8     \* largest max_rows drawn for iter_row_docs
MaxSample == 5      \* most cells in a series given to _detect_outlier_indices
MaxValue == 9       \* the largest number in such a series
MaxRowsPerDoc == 3
MaxCharts == 2
MaxPoints == 2  \* largest rows_per_doc drawn for iter_row_docs

(***************************************************************************)
(* Values.                                                                 *)
(***************************************************************************)
\* Optional values: None is the empty tuple, a present value x is <<x>>.
None == <<>>
Some(x) == <<x>>
NA == <<>>                                \* a missing cell (pandas NaN)

\* The element of a one-element set.  {F(x) : x \in {e}} computes e once, as an
\* assignment x = e followed by F(x) does.
Only(S) == CHOOSE x \in S : TRUE

\* An entry of DatasetMetadata.warnings: the fixed text and the column it names.
Warning(text, col) == [text |-> text, col |-> col]

HTTPException(code, text) == [status_code |-> code, detail |-> text]
IsError(r) == "status_code" \in DOMAIN r

(***************************************************************************)
(* Text helpers.                                                           *)
(***************************************************************************)
Digits == <<"0", "1", "2", "3", "4", "5", "6", "7", "8", "9">>

RECURSIVE Decimal(_)
\* str(n) for a natural number n.
Decimal(n) ==
    IF n < 10 THEN <<Digits[n + 1]>>
    ELSE Decimal(n \div 10) \o <<Digits[(n % 10) + 1]>>

IsSpace(c) == c = " "

RECURSIVE LStrip(_)
LStrip(s) == IF s # <<>> /\ IsSpace(Head(s)) THEN LStrip(Tail(s)) ELSE s

RECURSIVE RStrip(_)
RStrip(s) ==
    IF s # <<>> /\ IsSpace(s[Len(s)]) THEN RStrip(SubSeq(s, 1, Len(s) - 1)) ELSE s

\* str.strip()
Strip(s) == RStrip(LStrip(s))

Range(s) == {s[i] : i \in DOMAIN s}

SeqsUpTo(S, n) == UNION {[1..k -> S] : k \in 0..n}

(***************************************************************************)
(* Header row: _read_header_row and _normalize_columns.                    *)
(***************************************************************************)
\* The first csv row with a non-blank cell, its cells trimmed; [] if there is none.
RECURSIVE read_header_row(_)
read_header_row(lines) ==
    IF lines = <<>> THEN <<>>
    ELSE IF \E i \in DOMAIN Head(lines) : Strip(Head(lines)[i]) # <<>>
         THEN [i \in DOMAIN Head(lines) |-> Strip(Head(lines)[i])]
         ELSE read_header_row(Tail(lines))

DupSuffix == <<"_", "d", "u", "p">>

\* seen.get(name, 0)
SeenGet(seen, name) == IF name \in DOMAIN seen THEN seen[name] ELSE 0

SeenPut(seen, name, n) ==
    [k \in DOMAIN seen \cup {name} |-> IF k = name THEN n ELSE seen[k]]

\* The name a repeated column gets: f"{name}_dup{count}" (mutant: counts from 0).
DupNameOffByOne(name, count) == name \o DupSuffix \o Decimal(count - 1)

DupName(name, count) == name \o DupSuffix \o Decimal(count)

\* One pass of the for loop of _normalize_columns over columns[i..], with the
\* loop's locals cleaned, seen and duplicate_found.
RECURSIVE NormalizeLoop(_, _, _, _, _)
NormalizeLoop(columns, i, cleaned, seen, duplicate_found) ==
    IF i > Len(columns)
    THEN [columns |-> cleaned,
          warnings |-> IF duplicate_found
                       THEN <<Warning("duplicate column names renamed", <<>>)>>
                       ELSE <<>>]
    ELSE LET name == Strip(columns[i])
             count == SeenGet(seen, name)
         IN  IF name = <<>>
             THEN HTTPException(400, "Invalid header column name.")
             ELSE NormalizeLoop(columns, i + 1,
                      Append(cleaned, IF count # 0 THEN DupName(name, count) ELSE name),
                      SeenPut(seen, name, count + 1),
                      duplicate_found \/ count # 0)

normalize_columns(columns) ==
    IF columns = <<>> THEN HTTPException(400, "Missing header row.")
    ELSE NormalizeLoop(columns, 1, <<>>, <<>>, FALSE)

(***************************************************************************)
(* Chunked ingestion: _iter_csv_chunks, _infer_primary_key and             *)
(* _build_metadata.  A file is its data rows (each a tuple of cells, one   *)
(* per column; a cell is NA or Some(v)) and whether pandas fails to parse  *)
(* it.  dtypes, numeric_columns_summary and top_values are not modelled.   *)
(***************************************************************************)
PreviewRows == 5

ParseError == [exception |-> "pandas parse error"]
IsException(r) == "exception" \in DOMAIN r

Distinct(s) == \A i, j \in DOMAIN s : i # j => s[i] # s[j]

Min(a, b) == IF a < b THEN a ELSE b

Max(a, b) == IF a > b THEN a ELSE b

\* A rate or a mean: its numerator and denominator.
Rate(num, den) == [num |-> num, den |-> den]

\* DataFrame.head(n) on a list of rows.
RowsHead(rows, n) == SubSeq(rows, 1, Min(n, Len(rows)))

RECURSIVE SplitChunks(_, _)
SplitChunks(rows, chunk_size) ==
    IF rows = <<>> THEN <<>>
    ELSE <<RowsHead(rows, chunk_size)>>
         \o SplitChunks(SubSeq(rows, Min(chunk_size, Len(rows)) + 1, Len(rows)), chunk_size)

\* pd.read_csv(..., names=columns, chunksize=chunk_size): the chunks in file order;
\* pandas raises on duplicate names and on a file it cannot parse.
iter_csv_chunks(file, columns, chunk_size) ==
    IF ~Distinct(columns) \/ file.malformed THEN ParseError
    ELSE [chunks |-> SplitChunks(file.rows, chunk_size)]

\* chunk.isna().sum()[col] for the column at position c.
ChunkMissing(chunk, c) == Cardinality({r \in DOMAIN chunk : chunk[r][c] = NA})

\* series.nunique(dropna=True)
NUnique(rows, c) == Cardinality({rows[r][c] : r \in DOMAIN rows} \ {NA})

RECURSIVE PrimaryKeyFrom(_, _, _)
PrimaryKeyFrom(df, columns, c) ==
    IF c > Len(columns) THEN None
    ELSE IF \E r \in DOMAIN df : df[r][c] = NA THEN PrimaryKeyFrom(df, columns, c + 1)
    ELSE IF 100 * NUnique(df, c) >= 95 * Len(df) THEN Some(columns[c])
    ELSE PrimaryKeyFrom(df, columns, c + 1)

infer_primary_key(df, columns) ==
    IF df = <<>> THEN None ELSE PrimaryKeyFrom(df, columns, 1)

\* The accumulator of the chunk loop of _build_metadata before the first chunk.
FoldInit(columns) ==
    [total_rows |-> 0,
     missing_counts |-> [c \in DOMAIN columns |-> 0],
     preview_rows |-> <<>>,
     sample_df |-> <<>>]

\* missing_counts[col] += chunk_missing[col] (mutant: counted on the sampled rows only).
AddMissingSampleOnly(acc, chunk, sample_rows) ==
    [c \in DOMAIN acc.missing_counts |->
        acc.missing_counts[c]
        + ChunkMissing(RowsHead(chunk, sample_rows - Len(acc.sample_df)), c)]

AddMissing(acc, chunk, sample_rows) ==
    [c \in DOMAIN acc.missing_counts |-> acc.missing_counts[c] + ChunkMissing(chunk, c)]

\* preview_rows after one chunk (mutant: only the first chunk feeds the preview).
ExtendPreviewFirstChunkOnly(acc, chunk) ==
    IF acc.total_rows = 0
    THEN acc.preview_rows \o RowsHead(chunk, PreviewRows - Len(acc.preview_rows))
    ELSE acc.preview_rows

ExtendPreview(acc, chunk) ==
    IF Len(acc.preview_rows) < PreviewRows
    THEN acc.preview_rows \o RowsHead(chunk, PreviewRows - Len(acc.preview_rows))
    ELSE acc.preview_rows

\* One iteration of the chunk loop of _build_metadata.
FoldChunk(acc, chunk, sample_rows) ==
    [total_rows |-> acc.total_rows + Len(chunk),
     missing_counts |-> AddMissing(acc, chunk, sample_rows),
     preview_rows |-> ExtendPreview(acc, chunk),
     sample_df |->
        IF Len(acc.sample_df) < sample_rows
        THEN acc.sample_df \o RowsHead(chunk, sample_rows - Len(acc.sample_df))
        ELSE acc.sample_df]

RECURSIVE FoldChunks(_, _, _)
FoldChunks(acc, chunks, sample_rows) ==
    IF chunks = <<>> THEN acc
    ELSE FoldChunks(FoldChunk(acc, Head(chunks), sample_rows), Tail(chunks), sample_rows)

\* Whether _build_metadata warns about a column with `count` missing cells.
HighMissingAtHalf(count, total_rows) == total_rows # 0 /\ 2 * count >= total_rows

HighMissing(count, total_rows) == total_rows # 0 /\ 2 * count > total_rows

RECURSIVE MissingWarnings(_, _, _, _)
MissingWarnings(columns, missing_counts, total_rows, c) ==
    IF c > Len(columns) THEN <<>>
    ELSE (IF HighMissing(missing_counts[c], total_rows)
          THEN <<Warning("high missing rate in col", columns[c])>> ELSE <<>>)
         \o MissingWarnings(columns, missing_counts, total_rows, c + 1)

\* _build_metadata: the DatasetMetadata, an HTTPException, or the exception pandas raised.
build_metadata(file, dataset_id, filename, delimiter, encoding, columns, warnings, chunk_size, sample_rows) ==
    LET reader == iter_csv_chunks(file, columns, chunk_size)
        acc == FoldChunks(FoldInit(columns), reader.chunks, sample_rows)
    IN  IF IsException(reader) THEN reader
        ELSE IF acc.total_rows = 0 THEN HTTPException(400, "CSV contains no data.")
        ELSE [dataset_id |-> dataset_id,
              filename |-> filename,
              nb_rows |-> acc.total_rows,
              nb_columns |-> Len(columns),
              columns |-> columns,
              preview |-> acc.preview_rows,
              delimiter |-> delimiter,
              encoding |-> encoding,
              missing_values_count |-> acc.missing_counts,
              inferred_primary_key_candidate |-> infer_primary_key(acc.sample_df, columns),
              warnings |-> warnings
                  \o MissingWarnings(columns, acc.missing_counts, acc.total_rows, 1)]

(***************************************************************************)
(* Chunking: build_summary_doc, iter_row_docs and _iter_documents.  A      *)
(* RagDocument is modelled by its metadata; its text is a function of the  *)
(* metadata and the immutable file and is left out.                        *)
(***************************************************************************)
RagDocument(dataset_id, doc_type, row_start, row_end, columns, timestamp) ==
    [dataset_id |-> dataset_id,
     doc_type |-> doc_type,
     row_start |-> row_start,
     row_end |-> row_end,
     columns_included |-> columns,
     created_at |-> timestamp]

build_summary_doc(metadata, columns, timestamp) ==
    RagDocument(metadata.dataset_id, "summary", None, None, columns, timestamp)

\* Rows of the chunk pandas yields when `read` rows were read before it:
\* read_csv(nrows=max_rows, chunksize=rows_per_doc) stops after max_rows rows.
ChunkLen(total_rows, max_rows, rows_per_doc, read) ==
    Min(rows_per_doc, Min(max_rows, total_rows) - read)

\* row_end of a chunk of n rows that starts at row_index (mutant: one row too far).
RowEndPastChunk(row_index, n) == row_index + n

RowEnd(row_index, n) == (row_index + n) - 1

\* The for loop of iter_row_docs from the chunk that starts at row_index.
RECURSIVE RowDocsFrom(_, _, _, _, _, _)
RowDocsFrom(metadata, columns, max_rows, rows_per_doc, timestamp, row_index) ==
    LET n == ChunkLen(metadata.nb_rows, max_rows, rows_per_doc, row_index - 1)
    IN  IF n <= 0 THEN <<>>
        ELSE <<RagDocument(metadata.dataset_id, "rows", Some(row_index),
                           Some(RowEnd(row_index, n)), columns, timestamp)>>
             \o RowDocsFrom(metadata, columns, max_rows, rows_per_doc, timestamp,
                            RowEnd(row_index, n) + 1)

\* The raw file holds metadata.nb_rows data rows: it is written once, by create_dataset.
iter_row_docs(metadata, columns, max_rows, rows_per_doc, timestamp) ==
    RowDocsFrom(metadata, columns, max_rows, rows_per_doc, timestamp, 1)

\* _iter_documents with the summary appended after the rows documents (mutant).
iter_documents_summary_last(metadata, columns, max_rows, rows_per_doc, timestamp) ==
    iter_row_docs(metadata, columns, max_rows, rows_per_doc, timestamp)
    \o <<build_summary_doc(metadata, columns, timestamp)>>

iter_documents(metadata, columns, max_rows, rows_per_doc, timestamp) ==
    <<build_summary_doc(metadata, columns, timestamp)>>
    \o iter_row_docs(metadata, columns, max_rows, rows_per_doc, timestamp)

(***************************************************************************)
(* Insights: outlier detection.  A series is a sequence of cells, NA or an *)
(* integer; row i of the sample has index label i (df.index + 1).  The     *)
(* comparisons of the code are made on integers, cleared of denominators.  *)
(***************************************************************************)
\* numeric.index: the labels of the cells that are numbers, in row order.
NumericLabels(series) ==
    SelectSeq([i \in 1..Len(series) |-> i], LAMBDA i : series[i] # NA)

Value(series, i) == series[i][1]

\* The k-th smallest number of the series, k counted from 0.
OrderStat(series, k) ==
    LET labels == Range(NumericLabels(series))
        below(v) == Cardinality({i \in labels : Value(series, i) < v})
        upto(v) == Cardinality({i \in labels : Value(series, i) <= v})
    IN  CHOOSE v \in {Value(series, i) : i \in labels} : below(v) <= k /\ k < upto(v)

\* 4 * numeric.quantile(quarters / 4), by linear interpolation between the two
\* order statistics around position (n - 1) * quarters / 4.
Quantile4(series, quarters) ==
    LET n == Len(NumericLabels(series))
        h == (n - 1) * quarters
        k == h \div 4
        f == h % 4
    IN  IF f = 0 THEN 4 * OrderStat(series, k)
        ELSE 4 * OrderStat(series, k) + f * (OrderStat(series, k + 1) - OrderStat(series, k))

\* The sum of the numbers at `labels[1..j]`.
RECURSIVE SumValues(_, _, _)
SumValues(series, labels, j) ==
    IF j = 0 THEN 0 ELSE Value(series, labels[j]) + SumValues(series, labels, j - 1)

\* The sum of (n * x - S)^2 over the numbers x at `labels[1..j]`.
RECURSIVE SumSquares(_, _, _, _, _)
SumSquares(series, labels, n, S, j) ==
    IF j = 0 THEN 0
    ELSE (n * Value(series, labels[j]) - S) * (n * Value(series, labels[j]) - S)
         + SumSquares(series, labels, n, S, j - 1)

\* zscores.abs() > 3 for the number x: with n numbers of sum S and
\* D = sum of (n * x_i - S)^2, std = 0 iff D = 0, and |z| > 3 iff n * (n * x - S)^2 > 9 * D.
ZScoreFence(series, labels, n, S, D) ==
    IF D = 0 THEN <<>>
    ELSE SelectSeq(labels, LAMBDA i :
             n * (n * Value(series, i) - S) * (n * Value(series, i) - S) > 9 * D)

\* mean and std are computed once, then every number is compared.
ZScoreOutliers(series) ==
    Only({Only({ZScoreFence(series, labels, Len(labels), S,
                            SumSquares(series, labels, Len(labels), S, Len(labels)))
                : S \in {SumValues(series, labels, Len(labels))}})
          : labels \in {NumericLabels(series)}})

\* numeric < q1 - 1.5 * iqr or numeric > q3 + 1.5 * iqr, times 8 (mutant: iqr = 0
\* is not set apart).
IqrFenceUnguarded(series, labels, q1, q3) ==
    SelectSeq(labels, LAMBDA i : \/ 8 * Value(series, i) < 2 * q1 - 3 * (q3 - q1)
                                 \/ 8 * Value(series, i) > 2 * q3 + 3 * (q3 - q1))

IqrFence(series, labels, q1, q3) ==
    IF q3 - q1 = 0 THEN <<>>
    ELSE SelectSeq(labels, LAMBDA i : \/ 8 * Value(series, i) < 2 * q1 - 3 * (q3 - q1)
                                      \/ 8 * Value(series, i) > 2 * q3 + 3 * (q3 - q1))

\* q1 and q3 are computed once, then every number is compared.
IqrOutliers(series) ==
    Only({IqrFence(series, labels, q1, q3)
          : labels \in {NumericLabels(series)},
            q1 \in {Quantile4(series, 1)}, q3 \in {Quantile4(series, 3)}})

\* outliers.index[:20]
OutlierCap == 20

\* _detect_outlier_indices
detect_outlier_indices(series, method) ==
    IF NumericLabels(series) = <<>> THEN <<>>
    ELSE LET outliers == IF method = "zscore" THEN ZScoreOutliers(series)
                         ELSE IqrOutliers(series)
         IN  SubSeq(outliers, 1, Min(OutlierCap, Len(outliers)))

(***************************************************************************)
(* Chart suggestion (app/insights/charts.py).  The frame is the sequence   *)
(* of its rows and a column is its position; a cell of a categorical       *)
(* column stands for its text and a cell of a datetime column for the day  *)
(* it parses to.  Titles, and the bounds printed in the labels of a        *)
(* histogram, are left out.                                                *)
(***************************************************************************)
\* Column c of the frame.
Col(df, c) == [r \in DOMAIN df |-> df[r][c]]

\* The non-missing values of a series, and how often and where first each occurs.
Values(series) == {Value(series, i) : i \in Range(NumericLabels(series))}

Count(series, v) == Cardinality({i \in DOMAIN series : series[i] = Some(v)})

First(series, v) == CHOOSE i \in DOMAIN series : series[i] = Some(v) /\ \A j \in 1..(i - 1) : series[j] # Some(v)

\* series.dropna().value_counts(): the values by decreasing count, a tie in the
\* order of first occurrence.
RECURSIVE CountsFrom(_, _)
CountsFrom(series, values) ==
    IF values = {} THEN <<>>
    ELSE Only({<<[value |-> best, count |-> Count(series, best)]>>
               \o CountsFrom(series, values \ {best})
               : best \in {v \in values : \A w \in values \ {v} :
                              \/ Count(series, v) > Count(series, w)
                              \/ Count(series, v) = Count(series, w)
                                 /\ First(series, v) < First(series, w)}})

value_counts(series) == Only({CountsFrom(s, Values(s)) : s \in {series}})

\* .head(n) and [:n] (mutant: nothing is cut).
TakeUncut(seq, n) == seq

Take(seq, n) == SubSeq(seq, 1, Min(n, Len(seq)))

\* The rows of the frame where neither column a nor column b is missing.
BothPresent(df, a, b) == SelectSeq(df, LAMBDA row : row[a] # NA /\ row[b] # NA)

RECURSIVE SumCol(_, _, _)
SumCol(rows, val, j) == IF j = 0 THEN 0 ELSE rows[j][val][1] + SumCol(rows, val, j - 1)

\* data.groupby(key)[val].mean(): the mean of the group of key k, as sum and count.
GroupMean(data, key, val, k) ==
    Only({Rate(SumCol(rows, val, Len(rows)), Len(rows))
          : rows \in {SelectSeq(data, LAMBDA row : row[key] = Some(k))}})

\* .sort_index(): the keys in increasing order.
RECURSIVE SortedKeys(_)
SortedKeys(keys) ==
    IF keys = {} THEN <<>>
    ELSE Only({<<first>> \o SortedKeys(keys \ {first})
               : first \in {k \in keys : \A w \in keys : k <= w}})

\* m is before w in .sort_values(ascending=False): a greater mean, or the same
\* mean and a smaller key.
MeanBefore(k, mk, w, mw) ==
    \/ mk.num * mw.den > mw.num * mk.den
    \/ mk.num * mw.den = mw.num * mk.den /\ k < w

\* The keys by decreasing mean; `means` maps each key to the mean of its group.
RECURSIVE ByMeanDescending(_, _)
ByMeanDescending(means, keys) ==
    IF keys = {} THEN <<>>
    ELSE Only({<<first>> \o ByMeanDescending(means, keys \ {first})
               : first \in {k \in keys : \A w \in keys \ {k} :
                               MeanBefore(k, means[k], w, means[w])}})

\* data.groupby(key)[val].mean().sort_values(ascending=False): each key with
\* the mean of its group.
GroupedMeans(data, key, val) ==
    Only({Only({[i \in DOMAIN sorted |-> [key |-> sorted[i], mean |-> means[sorted[i]]]]
                : sorted \in {ByMeanDescending(means, DOMAIN means)}})
          : means \in {[k \in Values(Col(data, key)) |-> GroupMean(data, key, val, k)]}})

ChartSpec(type, x, y, aggregation, data_preview, notes) ==
    [type |-> type, x |-> x, y |-> y, aggregation |-> aggregation,
     data_preview |-> data_preview, notes |-> notes]

\* _build_bar_chart lines 28-48: the average of numeric_col by category.
BarOfMeans(data, columns, category_col, numeric_col, max_points, notes) ==
    IF data = <<>> THEN None
    ELSE Only({Some(ChartSpec("bar", Some(columns[category_col]),
                        Some(columns[numeric_col]), Some("avg"),
                        [x |-> [i \in DOMAIN grouped |-> grouped[i].key],
                         y |-> [i \in DOMAIN grouped |-> grouped[i].mean]],
                        notes))
               : grouped \in {Take(GroupedMeans(data, category_col, numeric_col),
                                   max_points)}})

\* Lines 50-62 of _build_bar_chart, and _build_pie_chart with its own keys.
ChartOfCounts(type, keys, values, counts, columns, category_col, notes) ==
    IF counts = <<>> THEN None
    ELSE Some(ChartSpec(type, Some(columns[category_col]), None, Some("count"),
                  (keys :> [i \in DOMAIN counts |-> counts[i].value])
                  @@ (values :> [i \in DOMAIN counts |-> counts[i].count]),
                  notes))

\* _build_bar_chart: None, or the chart wrapped in Some.
build_bar_chart(df, columns, category_col, numeric_col, max_points, notes) ==
    IF numeric_col # None
    THEN Only({BarOfMeans(data, columns, category_col, numeric_col[1], max_points, notes)
               : data \in {BothPresent(df, category_col, numeric_col[1])}})
    ELSE Only({ChartOfCounts("bar", "x", "y", counts, columns, category_col, notes)
               : counts \in {Take(value_counts(Col(df, category_col)), max_points)}})

\* _build_pie_chart
build_pie_chart(df, columns, category_col, max_points, notes) ==
    Only({ChartOfCounts("pie", "labels", "values", counts, columns, category_col, notes)
          : counts \in {Take(value_counts(Col(df, category_col)), max_points)}})

HistogramBins == 10

\* pd.cut(series, bins): the bin (1..bins) of v among equal-width intervals,
\* closed on the right, over [mn, mx]; the lowest bound is moved below mn.
Bin(v, mn, mx, bins) ==
    IF v = mn THEN 1 ELSE (((v - mn) * bins + (mx - mn)) - 1) \div (mx - mn)

\* hist.value_counts().sort_index(): the count of each bin, in order.
BinCounts(numbers, mn, mx, bins) ==
    [b \in 1..bins |->
        Cardinality({i \in DOMAIN numbers : Bin(numbers[i], mn, mx, bins) = b})]

\* Lines 95-107 of _build_histogram_chart, on the numbers of the column.
HistogramOf(numbers, columns, numeric_col, max_points, notes) ==
    Only({Some(ChartSpec("histogram", Some(columns[numeric_col]), None, Some("count"),
                   [x |-> Take([b \in 1..bins |-> [bin |-> b, of |-> bins]], max_points),
                    y |-> Take(BinCounts(numbers, mn, mx, bins), max_points)],
                   notes))
          : mn \in {n \in Range(numbers) : \A m \in Range(numbers) : n <= m},
            mx \in {n \in Range(numbers) : \A m \in Range(numbers) : n >= m},
            bins \in {Min(Min(HistogramBins, max_points),
                          Max(Cardinality(Range(numbers)), 2))}})

\* _build_histogram_chart
build_histogram_chart(df, columns, numeric_col, max_points, notes) ==
    Only({IF numbers = <<>> THEN None
          ELSE HistogramOf(numbers, columns, numeric_col, max_points, notes)
          : numbers \in {[i \in DOMAIN NumericLabels(Col(df, numeric_col)) |->
                             Value(Col(df, numeric_col),
                                   NumericLabels(Col(df, numeric_col))[i])]}})

\* grouped = ....sort_index(), then x_vals[:max_points] and y_vals[:max_points]
LineChart(grouped, columns, datetime_col, y, aggregation, max_points, notes) ==
    Some(ChartSpec("line", Some(columns[datetime_col]), y, Some(aggregation),
             [x |-> Take([i \in DOMAIN grouped |-> grouped[i].key], max_points),
              y |-> Take([i \in DOMAIN grouped |-> grouped[i].value], max_points)],
             notes))

\* Lines 123-141 of _build_line_chart: the average of numeric_col by day.
LineOfMeans(data, columns, datetime_col, numeric_col, max_points, notes) ==
    IF data = <<>> THEN None
    ELSE Only({LineChart([i \in DOMAIN dates |->
                             [key |-> dates[i],
                              value |-> GroupMean(data, datetime_col, numeric_col, dates[i])]],
                         columns, datetime_col, Some(columns[numeric_col]), "avg",
                         max_points, notes)
               : dates \in {SortedKeys(Values(Col(data, datetime_col)))}})

\* Lines 143-158 of _build_line_chart: the count of rows by day.
LineOfCounts(parsed, columns, datetime_col, max_points, notes) ==
    Only({LineChart([i \in DOMAIN days |->
                        [key |-> days[i], value |-> Count(parsed, days[i])]],
                    columns, datetime_col, None, "count", max_points, notes)
          : days \in {SortedKeys(Values(parsed))}})

\* _build_line_chart
build_line_chart(df, columns, datetime_col, numeric_col, max_points, notes) ==
    Only({IF NumericLabels(parsed) = <<>> THEN None
          ELSE IF numeric_col # None
          THEN Only({LineOfMeans(data, columns, datetime_col, numeric_col[1],
                                 max_points, notes)
                     : data \in {BothPresent(df, datetime_col, numeric_col[1])}})
          ELSE LineOfCounts(parsed, columns, datetime_col, max_points, notes)
          : parsed \in {Col(df, datetime_col)}})

\* _build_scatter_chart
build_scatter_chart(df, columns, x_col, y_col, max_points, notes) ==
    Only({IF data = <<>> THEN None
          ELSE Some(ChartSpec("scatter", Some(columns[x_col]), Some(columns[y_col]), None,
                        [x |-> [i \in DOMAIN data |-> data[i][x_col][1]],
                         y |-> [i \in DOMAIN data |-> data[i][y_col][1]]],
                        notes))
          : data \in {Take(BothPresent(df, x_col, y_col), max_points)}})

\* str.lower, on the letters the questions of the model use.
Lower(ch) ==
    IF ch = "T" THEN "t" ELSE IF ch = "S" THEN "s" ELSE IF ch = "H" THEN "h" ELSE ch

\* question.lower().split(), the words in order.
RECURSIVE Words(_, _, _)
Words(text, i, word) ==
    IF i > Len(text) THEN (IF word = <<>> THEN <<>> ELSE <<word>>)
    ELSE IF IsSpace(text[i])
    THEN (IF word = <<>> THEN <<>> ELSE <<word>>) \o Words(text, i + 1, <<>>)
    ELSE Words(text, i + 1, Append(word, Lower(text[i])))

\* " ".join(words)
RECURSIVE Join(_)
Join(words) ==
    IF words = <<>> THEN <<>>
    ELSE IF Len(words) = 1 THEN words[1]
    ELSE words[1] \o <<" ">> \o Join(Tail(words))

\* _normalize_question
normalize_question(question) == Join(Words(question, 1, <<>>))

\* keyword in text
Contains(text, keyword) ==
    \E i \in 1..((Len(text) - Len(keyword)) + 1) :
        SubSeq(text, i, (i + Len(keyword)) - 1) = keyword

\* _contains_any
contains_any(text, keywords) == \E k \in keywords : Contains(text, k)

TrendKeywords ==
    {<<"e", "v", "o", "l", "u", "t", "i", "o", "n">>,
     <<"t", "r", "e", "n", "d">>,
     <<"o", "v", "e", "r", " ", "t", "i", "m", "e">>,
     <<"t", "i", "m", "e">>}

DistributionKeywords ==
    {<<"d", "i", "s", "t", "r", "i", "b", "u", "t", "i", "o", "n">>,
     <<"h", "i", "s", "t", "o", "g", "r", "a", "m">>,
     <<"r", "e", "p", "a", "r", "t", "i", "t", "i", "o", "n">>}

CompareKeywords ==
    {<<"c", "o", "m", "p", "a", "r", "e">>,
     <<"c", "o", "m", "p", "a", "r", "i", "s", "o", "n">>,
     <<"c", "o", "m", "p", "a", "r", "a", "i", "s", "o", "n">>,
     <<"t", "o", "p">>}

ShareKeywords ==
    {<<"s", "h", "a", "r", "e">>,
     <<"r", "a", "t", "i", "o">>,
     <<"p", "e", "r", "c", "e", "n", "t", "a", "g", "e">>,
     <<"p", "r", "o", "p", "o", "r", "t", "i", "o", "n">>}

\* add_chart: a chart is kept unless it is None or its key was seen.
ChartKey(chart) == <<chart.type, chart.x, chart.y, chart.aggregation>>

\* add_chart without the set of keys (mutant): every chart built is appended.
add_chart_unkeyed(charts, chart) == IF chart = None THEN charts ELSE Append(charts, chart[1])

add_chart(charts, chart) ==
    Only({IF built = None THEN charts
          ELSE IF \E i \in DOMAIN charts : ChartKey(charts[i]) = ChartKey(built[1])
          THEN charts
          ELSE Append(charts, built[1])
          : built \in {chart}})

\* The positions of the columns profiled with the type.
ColumnsOfType(profiles, type) ==
    SelectSeq([c \in DOMAIN profiles |-> c], LAMBDA c : profiles[c].type = type)

FirstOrNone(cols) == IF cols # <<>> THEN Some(cols[1]) ELSE None

\* Lines 213-254 with each test of the keywords joined to the test of the
\* columns (mutant): a category without columns gives way to the next one.
RequestedChartFallingThrough(df, columns, numeric_cols, categorical_cols, datetime_cols, normalized, max_points) ==
    IF contains_any(normalized, TrendKeywords) /\ datetime_cols # <<>>
    THEN build_line_chart(df, columns, datetime_cols[1], FirstOrNone(numeric_cols),
                          max_points, "Requested trend over time.")
    ELSE IF contains_any(normalized, DistributionKeywords) /\ numeric_cols # <<>>
    THEN build_histogram_chart(df, columns, numeric_cols[1], max_points,
                               "Requested distribution view.")
    ELSE IF contains_any(normalized, CompareKeywords) /\ categorical_cols # <<>>
    THEN build_bar_chart(df, columns, categorical_cols[1], FirstOrNone(numeric_cols),
                         max_points, "Requested comparison between categories.")
    ELSE IF contains_any(normalized, ShareKeywords) /\ categorical_cols # <<>>
    THEN build_pie_chart(df, columns, categorical_cols[1], max_points,
                         "Requested proportional view.")
    ELSE None

\* Lines 213-254 of suggest_charts: the chart the normalized question asks for.
RequestedChart(df, columns, numeric_cols, categorical_cols, datetime_cols, normalized, max_points) ==
    IF contains_any(normalized, TrendKeywords)
    THEN (IF datetime_cols = <<>> THEN None
          ELSE build_line_chart(df, columns, datetime_cols[1], FirstOrNone(numeric_cols),
                                max_points, "Requested trend over time."))
    ELSE IF contains_any(normalized, DistributionKeywords)
    THEN (IF numeric_cols = <<>> THEN None
          ELSE build_histogram_chart(df, columns, numeric_cols[1], max_points,
                                     "Requested distribution view."))
    ELSE IF contains_any(normalized, CompareKeywords)
    THEN (IF categorical_cols = <<>> THEN None
          ELSE build_bar_chart(df, columns, categorical_cols[1], FirstOrNone(numeric_cols),
                               max_points, "Requested comparison between categories."))
    ELSE IF contains_any(normalized, ShareKeywords)
    THEN (IF categorical_cols = <<>> THEN None
          ELSE build_pie_chart(df, columns, categorical_cols[1], max_points,
                               "Requested proportional view."))
    ELSE None

\* Lines 211-254 of suggest_charts
QuestionChart(df, columns, numeric_cols, categorical_cols, datetime_cols, question, max_points) ==
    IF question = None \/ question[1] = <<>> THEN None
    ELSE Only({RequestedChart(df, columns, numeric_cols, categorical_cols, datetime_cols,
                              normalized, max_points)
               : normalized \in {normalize_question(question[1])}})

\* Lines 256-265 of suggest_charts
WithLine(charts, df, columns, numeric_cols, datetime_cols, max_charts, max_points) ==
    IF datetime_cols # <<>> /\ Len(charts) < max_charts
    THEN add_chart(charts, build_line_chart(df, columns, datetime_cols[1],
                               FirstOrNone(numeric_cols), max_points, "Time-based overview."))
    ELSE charts

\* Lines 267-276 of suggest_charts
WithBar(charts, df, columns, numeric_cols, categorical_cols, max_charts, max_points) ==
    IF categorical_cols # <<>> /\ Len(charts) < max_charts
    THEN add_chart(charts, build_bar_chart(df, columns, categorical_cols[1],
                               FirstOrNone(numeric_cols), max_points, "Category comparison."))
    ELSE charts

\* Lines 278-287 of suggest_charts
WithScatter(charts, df, columns, numeric_cols, max_charts, max_points) ==
    IF Len(numeric_cols) >= 2 /\ Len(charts) < max_charts
    THEN add_chart(charts, build_scatter_chart(df, columns, numeric_cols[1], numeric_cols[2],
                               max_points, "Relationship between numeric features."))
    ELSE charts

\* Lines 289-297 of suggest_charts
WithHistogram(charts, df, columns, numeric_cols, max_charts, max_points) ==
    IF numeric_cols # <<>> /\ Len(charts) < max_charts
    THEN add_chart(charts, build_histogram_chart(df, columns, numeric_cols[1], max_points,
                               "Distribution of numeric values."))
    ELSE charts

\* Lines 199-299 of suggest_charts: the list grows statement by statement.
SuggestFrom(df, columns, numeric_cols, categorical_cols, datetime_cols, question, max_charts, max_points) ==
    Only({Only({Only({Only({
        Take(WithHistogram(related, df, columns, numeric_cols, max_charts, max_points),
             max_charts)
        : related \in {WithScatter(compared, df, columns, numeric_cols,
                                   max_charts, max_points)}})
        : compared \in {WithBar(timed, df, columns, numeric_cols, categorical_cols,
                                max_charts, max_points)}})
        : timed \in {WithLine(asked, df, columns, numeric_cols, datetime_cols,
                              max_charts, max_points)}})
        : asked \in {add_chart(<<>>, QuestionChart(df, columns, numeric_cols,
                                         categorical_cols, datetime_cols, question,
                                         max_points))}})

\* suggest_charts
suggest_charts(profiles, columns, df, question, max_charts, max_points) ==
    Only({SuggestFrom(df, columns, numeric_cols, categorical_cols, datetime_cols, question,
                      max_charts, max_points)
          : numeric_cols \in {ColumnsOfType(profiles, "numeric")},
            categorical_cols \in {ColumnsOfType(profiles, "categorical")},
            datetime_cols \in {ColumnsOfType(profiles, "datetime")}})

(***************************************************************************)
(* SpecPure: the pure functions of ingestion and chunking, each applied    *)
(* once to arguments drawn from bounded sets.                              *)
(***************************************************************************)
ColA == <<"a">>
ColB == <<"b">>
ColADup1 == <<"a", "_", "d", "u", "p", "1">>
ColAPadded == <<" ", "a", " ">>
CellBlank == <<" ">>
CellEmpty == <<>>

HeaderCells == {ColA, ColB, ColADup1, ColAPadded, CellBlank, CellEmpty}

HeaderRows == SeqsUpTo(HeaderCells, MaxCols) \ {<<>>}

\* The leading csv rows of a file: none, one row, or a blank row and then one cell.
HeaderLines ==
    {<<>>} \cup {<<r>> : r \in HeaderRows}
           \cup {<<<<CellEmpty, CellBlank>>, <<c>>>> : c \in HeaderCells}

Cells == {NA, Some(1)}

DataRows(width) == [1..width -> Cells]

BuildArgs ==
    UNION {[columns : {cols}, rows : SeqsUpTo(DataRows(Len(cols)), MaxFileRows),
            chunk_size : 1..MaxChunkSize, sample_rows : {SampleRows}]
           : cols \in {<<ColA>>, <<ColA, ColB>>}}

\* Numeric samples: up to MaxSample cells, each missing or one of three numbers.
OutlierArgs ==
    [series : SeqsUpTo({NA, Some(0), Some(1), Some(MaxValue)}, MaxSample),
     method : {"iqr", "zscore"}]

\* Three-column samples of three rows; each column is all missing, three
\* different values, or a repeated value and a missing cell.
ChartSeries == {<<NA, NA, NA>>, <<Some(2), Some(0), Some(1)>>, <<Some(1), Some(1), NA>>}

ChartColumns == <<ColA, ColB, <<"c">>>>

ChartFrames ==
    {[r \in 1..3 |-> [c \in 1..3 |-> cols[c][r]]] : cols \in [1..3 -> ChartSeries]}

ColumnTypes == {"numeric", "categorical", "datetime", "text"}

Questions ==
    {None, Some(<<>>), Some(<<"S", "h", "o", "w", " ", " ", "T", "r", "e", "n", "d">>), Some(<<"H", "i", "s", "t", "o", "g", "r", "a", "m">>),
     Some(<<"t", "o", "p">>), Some(<<"s", "h", "a", "r", "e">>), Some(<<"o", "t", "h", "e", "r">>),
     Some(<<"t", "o", "p", " ", "t", "r", "e", "n", "d">>)}

ChartArgs ==
    [types : [1..3 -> ColumnTypes], df : ChartFrames, question : Questions,
     max_charts : 1..MaxCharts, max_points : 1..MaxPoints]

(***************************************************************************)
(* _build_prompt.  A message is its role and its content; the content is   *)
(* the sequence of the parts that "\n\n".join glues: a part is its kind and *)
(* its text, a context block ("Source: {citation}\n{text}") is its citation *)
(* and the doc type that sorted it.                                        *)
(***************************************************************************)
SYSTEM_PROMPT == "You are a data assistant for dataset Q&A. ..."

Part(kind, text) == [kind |-> kind, text |-> text]

\* Lines 36-45: the blocks of the contexts whose doc_type is (summary = TRUE) or
\* is not (summary = FALSE) "summary", in the order of the contexts.
Blocks(contexts, summary) ==
    LET chosen == SelectSeq(contexts, LAMBDA item : (item.source.doc_type = "summary") = summary)
    IN  [i \in DOMAIN chosen |->
            [kind |-> "source", citation |-> chosen[i].citation,
             doc_type |-> chosen[i].source.doc_type]]

build_prompt(message, contexts, response_format) ==
    <<[role |-> "system", content |-> <<Part("instruction", SYSTEM_PROMPT)>>],
      [role |-> "user", content |->
          <<Part("question", message), Part("format", response_format),
            Part("header", "Context:")>>
          \o (IF Blocks(contexts, TRUE) # <<>>
              THEN <<Part("header", "Dataset summary:")>> \o Blocks(contexts, TRUE) ELSE <<>>)
          \o (IF Blocks(contexts, FALSE) # <<>>
              THEN <<Part("header", "Rows context:")>> \o Blocks(contexts, FALSE) ELSE <<>>)
          \o <<Part("closing", "Answer clearly and concisely. ...")>>]>>

\* A result of search_dataset on d1: the summary, or rows a to b.
SummaryContext ==
    [source |-> [dataset_id |-> "d1", doc_type |-> "summary", row_start |-> None,
                 row_end |-> None],
     citation |-> <<"dataset:", "d1">>]

RowsContext(a, b) ==
    [source |-> [dataset_id |-> "d1", doc_type |-> "rows", row_start |-> Some(a),
                 row_end |-> Some(b)],
     citation |-> <<"dataset:", "d1", " rows:">> \o Decimal(a) \o <<"-">> \o Decimal(b)]

MaxContexts == 3

\* Retrievals of one to MaxContexts hits, in every order.
PromptArgs ==
    [contexts : SeqsUpTo({SummaryContext, RowsContext(1, 2), RowsContext(3, 4)}, MaxContexts)
                    \ {<<>>},
     message : {"question?"}, response_format : {"markdown", "text"}]

RowDocArgs ==
    [total_rows : 1..MaxTotalRows, max_rows : 1..MaxMaxRows, rows_per_doc : 1..MaxRowsPerDoc]

\* A build of the documents of a file that may hold no data row.
DocumentArgs ==
    [total_rows : 0..MaxTotalRows, max_rows : 1..MaxMaxRows, rows_per_doc : 1..MaxRowsPerDoc]

NoCall == [fn |-> "none"]

InitRest ==
    /\ storage = [d \in {} |-> 0]
    /\ points = {}
    /\ collection = 0
    /\ settings = [x \in {} |-> 0]
    /\ procs = <<>>
    /\ clock = 0
    /\ failed_ids = {}

InitPure ==
    /\ \/ \E a \in HeaderLines :
             call = [fn |-> "normalize_columns", args |-> [lines |-> a], done |-> FALSE, ret |-> None]
       \/ \E a \in BuildArgs :
             call = [fn |-> "build_metadata", args |-> a, done |-> FALSE, ret |-> None]
       \/ \E a \in RowDocArgs :
             call = [fn |-> "iter_row_docs", args |-> a, done |-> FALSE, ret |-> None]
       \/ \E a \in PromptArgs :
             call = [fn |-> "build_prompt", args |-> a, done |-> FALSE, ret |-> None]
       \/ \E a \in DocumentArgs :
             call = [fn |-> "iter_documents", args |-> a, done |-> FALSE, ret |-> None]
       \/ \E a \in OutlierArgs :
             call = [fn |-> "detect_outlier_indices", args |-> a, done |-> FALSE, ret |-> None]
       \/ \E a \in ChartArgs :
             call = [fn |-> "suggest_charts", args |-> a, done |-> FALSE, ret |-> None]
    /\ InitRest

Returned(fn) == call.fn = fn /\ call.done

restVars == <<storage, points, collection, settings, procs, clock, failed_ids>>

\* create_dataset lines 288-289: the header row is read, then normalized.
CallNormalizeColumns ==
    /\ call.fn = "normalize_columns" /\ ~call.done
    /\ call' = [call EXCEPT !.done = TRUE, !.ret = normalize_columns(read_header_row(call.args.lines))]
    /\ UNCHANGED restVars

CallBuildMetadata ==
    /\ call.fn = "build_metadata" /\ ~call.done
    /\ call' = [call EXCEPT !.done = TRUE, !.ret =
                    build_metadata([rows |-> call.args.rows, malformed |-> FALSE],
                                   "d1", "data.csv", Some(","), "utf-8",
                                   call.args.columns, <<>>,
                                   call.args.chunk_size, call.args.sample_rows)]
    /\ UNCHANGED restVars

CallIterRowDocs ==
    /\ call.fn = "iter_row_docs" /\ ~call.done
    /\ call' = [call EXCEPT !.done = TRUE, !.ret =
                    iter_row_docs([dataset_id |-> "d1", nb_rows |-> call.args.total_rows],
                                  <<ColA>>, call.args.max_rows, call.args.rows_per_doc, 1)]
    /\ UNCHANGED restVars

\* index_dataset line 97
CallIterDocuments ==
    /\ call.fn = "iter_documents" /\ ~call.done
    /\ call' = [call EXCEPT !.done = TRUE, !.ret =
                    iter_documents([dataset_id |-> "d1", nb_rows |-> call.args.total_rows],
                                   <<ColA>>, call.args.max_rows, call.args.rows_per_doc, 1)]
    /\ UNCHANGED restVars

\* chat_with_dataset lines 144-148
CallBuildPrompt ==
    /\ call.fn = "build_prompt" /\ ~call.done
    /\ call' = [call EXCEPT !.done = TRUE, !.ret =
                    build_prompt(call.args.message, call.args.contexts,
                                 call.args.response_format)]
    /\ UNCHANGED restVars

\* build_anomalies line 85
CallDetectOutlierIndices ==
    /\ call.fn = "detect_outlier_indices" /\ ~call.done
    /\ call' = [call EXCEPT !.done = TRUE, !.ret =
                    detect_outlier_indices(call.args.series, call.args.method)]
    /\ UNCHANGED restVars

\* charts_service.suggest_charts lines 24-30
CallSuggestCharts ==
    /\ call.fn = "suggest_charts" /\ ~call.done
    /\ call' = [call EXCEPT !.done = TRUE, !.ret =
                    suggest_charts([c \in 1..3 |-> [type |-> call.args.types[c]]],
                                   ChartColumns, call.args.df, call.args.question,
                                   call.args.max_charts, call.args.max_points)]
    /\ UNCHANGED restVars

NextPure ==
    \/ CallNormalizeColumns
    \/ CallBuildMetadata
    \/ CallIterRowDocs
    \/ CallIterDocuments
    \/ CallBuildPrompt
    \/ CallDetectOutlierIndices
    \/ CallSuggestCharts

SpecPure == InitPure /\ [][NextPure]_vars

(***************************************************************************)
(* Properties of the pure functions, checked under SpecPure.               *)
(***************************************************************************)
\* C3: in one build the rows documents, in generation order, start at row 1,
\* each starts right after the previous one ends, none is empty, and the last
\* ends at min(max_rows, total_rows): no gap, no overlap, exactly that many rows.
RowRangesContiguous ==
    Returned("iter_row_docs") =>
        LET docs == call.ret
        IN  /\ docs # <<>>
            /\ docs[1].row_start = Some(1)
            /\ \A k \in 2..Len(docs) : docs[k].row_start = Some(docs[k - 1].row_end[1] + 1)
            /\ \A k \in DOMAIN docs :
                  /\ docs[k].doc_type = "rows"
                  /\ docs[k].row_start[1] <= docs[k].row_end[1]
            /\ docs[Len(docs)].row_end = Some(Min(call.args.max_rows, call.args.total_rows))

\* A build cut by max_rows, of three documents or more, the last one short.
RowRangesWitness ==
    /\ Returned("iter_row_docs")
    /\ call.args.max_rows < call.args.total_rows
    /\ Len(call.ret) >= 3
    /\ LET last == call.ret[Len(call.ret)]
       IN  (last.row_end[1] - last.row_start[1]) + 1 < call.args.rows_per_doc

\* Number of rows a rows document covers.
RowsCovered(doc) == (doc.row_end[1] - doc.row_start[1]) + 1

\* C21: a build yields exactly one summary document, the first, without a row
\* range; every document after it is a rows document of 1 to rows_per_doc rows,
\* and only the last of them may hold fewer than rows_per_doc.
SummaryThenFullChunks ==
    Returned("iter_documents") =>
        LET docs == call.ret
        IN  /\ docs # <<>>
            /\ docs[1].doc_type = "summary"
            /\ docs[1].row_start = None /\ docs[1].row_end = None
            /\ \A k \in 2..Len(docs) :
                  /\ docs[k].doc_type = "rows"
                  /\ RowsCovered(docs[k]) \in 1..call.args.rows_per_doc
            /\ \A k \in 2..(Len(docs) - 1) : RowsCovered(docs[k]) = call.args.rows_per_doc

\* A summary followed by two full rows documents and a shorter last one.
SummaryThenChunksWitness ==
    /\ Returned("iter_documents")
    /\ Len(call.ret) = 4 /\ call.args.rows_per_doc = 3
    /\ call.ret[1].doc_type = "summary"
    /\ RowsCovered(call.ret[2]) = 3 /\ RowsCovered(call.ret[4]) = 1

\* The parts of the messages of a prompt, in the order the model reads them.
PromptParts(messages) == messages[1].content \o messages[2].content

\* The positions of the parts of a kind.
PartsOfKind(parts, kind) == {i \in DOMAIN parts : parts[i].kind = kind}

\* The citations of the summary (or other) context blocks, in prompt order.
CitedInPrompt(parts, summary) ==
    LET chosen == SelectSeq(parts, LAMBDA part :
                      part.kind = "source" /\ (part.doc_type = "summary") = summary)
    IN  [i \in DOMAIN chosen |-> chosen[i].citation]

\* The citations of the summary (or other) contexts, in retrieval order.
CitedInContexts(contexts, summary) ==
    LET chosen == SelectSeq(contexts, LAMBDA item : (item.source.doc_type = "summary") = summary)
    IN  [i \in DOMAIN chosen |-> chosen[i].citation]

\* The prompt holds the fixed instruction first, then the summary contexts, then
\* the rows contexts, each with its citation and in retrieval order.
PromptGroupsInOrder ==
    Returned("build_prompt") =>
        LET parts == PromptParts(call.ret)
        IN  /\ parts[1] = Part("instruction", SYSTEM_PROMPT)
            /\ PartsOfKind(parts, "instruction") = {1}
            /\ \A i, j \in PartsOfKind(parts, "source") :
                  parts[i].doc_type = "summary" /\ parts[j].doc_type # "summary" => i < j
            /\ \A b \in BOOLEAN :
                  CitedInPrompt(parts, b) = CitedInContexts(call.args.contexts, b)

NormalizedOk == Returned("normalize_columns") /\ ~IsError(call.ret)

\* C5: the column list produced by header normalization has pairwise distinct
\* names, for every header row of non-empty names.
NormalizedColumnsDistinct == NormalizedOk => Distinct(call.ret.columns)

\* Number of earlier occurrences of the name at position i of the header row.
Repeats(row, i) == Cardinality({j \in 1..(i - 1) : row[j] = row[i]})

\* C6: the first occurrence of a name is kept, its k-th repeat becomes
\* <name>_dup<k>, and the warning 'duplicate column names renamed' is recorded
\* once if a name was renamed and not at all otherwise.
DupSuffixNumbering ==
    NormalizedOk =>
        LET row == read_header_row(call.args.lines)
            out == call.ret.columns
            renamed == \E i \in DOMAIN row : Repeats(row, i) > 0
        IN  /\ Len(out) = Len(row)
            /\ \A i \in DOMAIN row :
                  out[i] = IF Repeats(row, i) = 0 THEN row[i]
                           ELSE row[i] \o <<"_", "d", "u", "p">> \o Decimal(Repeats(row, i))
            /\ row = <<ColA, ColA, ColB>> => out = <<ColA, ColADup1, ColB>>
            /\ call.ret.warnings =
                  IF renamed THEN <<Warning("duplicate column names renamed", <<>>)>> ELSE <<>>

\* [a, a, a] was normalized to [a, a_dup1, a_dup2], with the warning.
DupSuffixWitness ==
    /\ NormalizedOk
    /\ read_header_row(call.args.lines) = <<ColA, ColA, ColA>>
    /\ call.ret.columns = <<ColA, ColADup1, <<"a", "_", "d", "u", "p", "2">>>>
    /\ Len(call.ret.warnings) = 1

BuiltOk == Returned("build_metadata") /\ ~IsError(call.ret)

\* C7: for a file with at least one data row the fold yields nb_rows = number of
\* data rows over all chunks, nb_columns = length of the header, and a preview of
\* the first min(5, nb_rows) rows in file order.
FoldCountsAndPreview ==
    Returned("build_metadata") =>
        LET rows == call.args.rows
        IN  /\ rows # <<>> => ~IsError(call.ret)
            /\ ~IsError(call.ret) =>
                  /\ call.ret.nb_rows = Len(rows)
                  /\ call.ret.nb_columns = Len(call.args.columns)
                  /\ call.ret.preview = [i \in 1..Min(5, Len(rows)) |-> rows[i]]

\* More than 5 rows in chunks of fewer than 5 rows: the preview spans chunks.
FoldPreviewWitness ==
    /\ BuiltOk
    /\ Len(call.args.rows) > 5
    /\ call.args.chunk_size < 5
    /\ Len(call.ret.preview) = 5
    /\ call.ret.preview[5] # call.ret.preview[1]

\* Missing cells of the column at position c, over the whole file.
FileMissing(rows, c) == Cardinality({r \in DOMAIN rows : rows[r][c] = NA})

\* C8: a column is named in a 'high missing rate' warning if and only if its
\* missing count over all rows of the file, divided by nb_rows, is greater than
\* 0.5; that count is the one in the metadata and never exceeds nb_rows.
HighMissingIffOverHalf ==
    BuiltOk =>
        \A c \in DOMAIN call.args.columns :
            LET missing == FileMissing(call.args.rows, c)
                warned == \E w \in DOMAIN call.ret.warnings :
                             call.ret.warnings[w] =
                                 Warning("high missing rate in col", call.args.columns[c])
            IN  /\ call.ret.missing_values_count[c] = missing
                /\ missing <= call.ret.nb_rows
                /\ warned <=> 2 * missing > call.ret.nb_rows

\* A warned column whose sampled rows miss nothing, in a file longer than the sample.
HighMissingWitness ==
    /\ BuiltOk
    /\ call.ret.nb_rows > call.args.sample_rows
    /\ \E c \in DOMAIN call.args.columns :
          /\ Warning("high missing rate in col", call.args.columns[c])
                \in Range(call.ret.warnings)
          /\ \A r \in 1..call.args.sample_rows : call.args.rows[r][c] # NA

(***************************************************************************)
(* The service.  Storage is one directory per dataset id; a request runs   *)
(* in a slot of procs, which holds its position in the handler (pc), its   *)
(* locals and, once it is done, its response.                              *)
(***************************************************************************)
DatasetIds == {"d1", "d2"}
Slots == {1, 2}

NoDir == [exists |-> FALSE]
EmptyDir ==
    [exists |-> TRUE, raw |-> None, metadata |-> None, index_metadata |-> None,
     insights |-> None, report |-> None]

Idle == [op |-> "idle", pc |-> "idle"]
NoCalls == [embed |-> 0, search |-> 0, generate |-> 0]

Ok(body) == [status_code |-> 200, body |-> body]
Failed(r) == r.status_code # 200
\* An exception no handler catches: the framework answers 500.
Unhandled == [status_code |-> 500, detail |-> "Internal Server Error"]

InFlight(p) == procs[p].pc \notin {"idle", "done"}
Done(p, op) == procs[p].op = op /\ procs[p].pc = "done"
\* With a lock around every request (mutant): a request is taken up only when
\* none is in flight.
FreeSerialized(p, in, op) ==
    /\ \A q \in Slots : ~InFlight(q)
    /\ op \in in.ops[p]

\* Slot p may take a new request when fewer than `limit` requests are in flight.
Free(p, in, op) ==
    /\ ~InFlight(p)
    /\ op \in in.ops[p]
    /\ Cardinality({q \in Slots : InFlight(q)}) < in.limit

(***************************************************************************)
(* create_dataset, load_dataset, get_dataset, list_datasets.               *)
(***************************************************************************)
\* _validate_filename
validate_filename(filename) ==
    IF filename = "" THEN HTTPException(400, "Missing filename.")
    ELSE IF filename = "../data.csv" THEN HTTPException(400, "Invalid filename.")
    ELSE IF filename # "data.csv" THEN HTTPException(400, "Only .csv files are allowed.")
    ELSE Ok(None)

\* dataset_dir.mkdir(parents=True, exist_ok=False)
Mkdir(st, id) == [st EXCEPT ![id] = EmptyDir]

\* _save_upload_file: raw.csv as far as it was written when the call ends.
SaveUpload(st, id, upload) ==
    [st EXCEPT ![id].raw =
        Some([rows |-> upload.rows, malformed |-> upload.malformed,
              complete |-> ~upload.too_large])]

WriteMetadata(st, id, metadata) == [st EXCEPT ![id].metadata = Some(metadata)]

\* shutil.rmtree(dataset_dir, ignore_errors=True) (mutant: the directory is left behind).
RmtreeNothing(st, id) == st

Rmtree(st, id) == [st EXCEPT ![id] = NoDir]

\* The try block of create_dataset after _save_upload_file: the DatasetMetadata
\* wrapped in Ok, an HTTPException, or the exception pandas raised.
Ingest(id, upload, delimiter, sample_rows) ==
    LET encoding_warnings ==
            IF upload.utf8 THEN <<>>
            ELSE <<Warning("encoding fallback used: latin-1", <<>>)>>
        encoding == IF upload.utf8 THEN "utf-8" ELSE "latin-1"
        given == delimiter # None /\ delimiter[1] # <<>>
        delimiter_value ==
            IF given THEN delimiter[1]
            ELSE IF upload.sniffed # None THEN upload.sniffed[1] ELSE <<",">>
        delimiter_warnings ==
            IF ~given /\ upload.sniffed = None
            THEN <<Warning("delimiter detection failed, defaulting to ','", <<>>)>>
            ELSE <<>>
        normalized == normalize_columns(read_header_row(upload.lines))
        metadata == build_metadata([rows |-> upload.rows, malformed |-> upload.malformed],
                        id, upload.filename, Some(delimiter_value), encoding,
                        normalized.columns,
                        encoding_warnings \o delimiter_warnings \o normalized.warnings,
                        10000, sample_rows)
    IN  IF upload.too_large THEN HTTPException(413, "File too large.")
        ELSE IF given /\ Len(delimiter[1]) # 1
        THEN HTTPException(400, "Delimiter must be a single character.")
        ELSE IF ~upload.has_header THEN HTTPException(400, "Missing header row.")
        ELSE IF IsError(normalized) THEN normalized
        ELSE IF IsException(metadata) \/ IsError(metadata) THEN metadata
        ELSE Ok(metadata)

\* create_dataset: the storage it leaves, the response, and the files it had
\* written under the dataset directory when it returned or raised.
Ingested(saved, id, outcome) ==
    IF IsException(outcome)
    THEN [storage |-> Rmtree(saved, id),
          response |-> HTTPException(400, "Failed to process CSV"),
          written |-> {"raw.csv"}]
    ELSE IF Failed(outcome)
    THEN [storage |-> Rmtree(saved, id), response |-> outcome, written |-> {"raw.csv"}]
    ELSE [storage |-> WriteMetadata(saved, id, outcome.body), response |-> outcome,
          written |-> {"raw.csv", "metadata.json"}]

create_dataset(st, id, upload, delimiter, sample_rows) ==
    IF Failed(validate_filename(upload.filename))
    THEN [storage |-> st, response |-> validate_filename(upload.filename), written |-> {}]
    ELSE Only({Ingested(SaveUpload(Mkdir(st, id), id, upload), id, outcome)
               : outcome \in {Ingest(id, upload, delimiter, sample_rows)}})

\* load_dataset: the metadata, or 404 when metadata.json or raw.csv is missing.
load_dataset(st, id) ==
    IF id \notin DatasetIds THEN HTTPException(400, "Invalid dataset_id.")
    ELSE IF ~st[id].exists \/ st[id].metadata = None \/ st[id].raw = None
    THEN HTTPException(404, "Dataset not found.")
    ELSE Ok(st[id].metadata[1])

\* list_datasets: the ids of the directories that hold a metadata.json.
list_datasets(st) == {id \in DatasetIds : st[id].exists /\ st[id].metadata # None}

(***************************************************************************)
(* VectorStore: the collection is its vector size (0 while it does not     *)
(* exist) and its points; a point is its id, the length of its vector and  *)
(* its payload, the metadata of the document.                              *)
(***************************************************************************)
\* f"{dataset_id}:{doc_index}"
PointId(dataset_id, doc_index) == <<dataset_id, ":">> \o Decimal(doc_index)

PointStruct(id, vector_size, payload) ==
    [id |-> id, vector_size |-> vector_size, payload |-> payload]

\* VectorStore._ensure_collection with recreate_on_mismatch = True (mutant): a
\* collection of another size is deleted and created again.
ensure_collection_recreates(size, vector_size) == vector_size

\* VectorStore._ensure_collection with recreate_on_mismatch = False: the size of
\* the collection afterwards, or 0 when ValueError is raised.
ensure_collection(size, vector_size) ==
    IF size # 0 THEN (IF size # vector_size THEN 0 ELSE size) ELSE vector_size

\* VectorStore.upsert: a point replaces the stored point of the same id.
upsert(stored, new) == {q \in stored : \A n \in new : n.id # q.id} \cup new

\* VectorStore.delete: every point whose payload names the dataset (mutant: none).
vs_delete_nothing(stored, size, dataset_id) == stored

\* VectorStore.delete without its filter (mutant): every point goes.
vs_delete_unfiltered(stored, size, dataset_id) == {}

vs_delete(stored, size, dataset_id) ==
    IF size = 0 THEN stored ELSE {q \in stored : q.payload.dataset_id # dataset_id}

\* The points of the collection whose payload names the dataset.
StoredFor(stored, dataset_id) == {q \in stored : q.payload.dataset_id = dataset_id}

\* The IndexMetadata of a dataset, None when it has none or does not exist.
IndexMetadataOf(st, id) ==
    IF id \in DOMAIN st /\ st[id].exists THEN st[id].index_metadata ELSE None

\* The points VectorStore.search may rank: filtered by dataset id and doc type
\* (mutant: by doc type only).
MatchingAnyDataset(stored, dataset_id, doc_types) ==
    {q \in stored : q.payload.doc_type \in Range(doc_types)}

Matching(stored, dataset_id, doc_types) ==
    {q \in stored : q.payload.dataset_id = dataset_id /\ q.payload.doc_type \in Range(doc_types)}

(***************************************************************************)
(* index_dataset: validation (lines 78-89) and the batch loop.             *)
(***************************************************************************)
\* Lines 79-89 of index_dataset: the resolved parameters or the 400 raised.
index_params(metadata, req, rows_per_doc_default, max_rows_default) ==
    LET selected_columns ==
            IF req.columns # None /\ req.columns[1] # <<>>
            THEN req.columns[1] ELSE metadata.columns
        max_rows_value == IF req.max_rows # None THEN req.max_rows[1] ELSE max_rows_default
        rows_per_doc_value ==
            IF req.rows_per_doc # None THEN req.rows_per_doc[1] ELSE rows_per_doc_default
    IN  IF selected_columns = <<>> THEN HTTPException(400, "columns must not be empty.")
        ELSE IF \E i \in DOMAIN selected_columns : selected_columns[i] \notin Range(metadata.columns)
        THEN HTTPException(400, "Unknown column")
        ELSE IF max_rows_value <= 0 THEN HTTPException(400, "max_rows must be positive.")
        ELSE IF rows_per_doc_value <= 0
        THEN HTTPException(400, "rows_per_doc must be positive.")
        ELSE Ok([columns |-> selected_columns, max_rows |-> max_rows_value,
                 rows_per_doc |-> rows_per_doc_value, reindex |-> req.reindex])

\* documents[batch_start : batch_start + batch_size]
Batch(documents, batch_start, batch_size) ==
    SubSeq(documents, batch_start + 1, Min(batch_start + batch_size, Len(documents)))

\* The points of one batch, doc_index starting again at 0 in every batch (mutant).
BatchPointsFromZero(dataset_id, batch, doc_index, vector_size) ==
    {PointStruct(PointId(dataset_id, i - 1), vector_size, batch[i]) : i \in DOMAIN batch}

\* The points of one batch: document i of the batch gets id doc_index + i - 1.
BatchPoints(dataset_id, batch, doc_index, vector_size) ==
    {PointStruct(PointId(dataset_id, (doc_index + i) - 1), vector_size, batch[i])
     : i \in DOMAIN batch}

\* _write_index_metadata
IndexMetadata(dataset_id, nb_docs, params, now) ==
    [dataset_id |-> dataset_id, nb_docs |-> nb_docs, params |-> params,
     status |-> "indexed", created_at |-> now]

(***************************************************************************)
(* search_dataset and chat_with_dataset.                                   *)
(***************************************************************************)
\* The path of index_metadata.json exists.
\* _index_metadata_path(dataset_id).exists() (mutant: the directory is enough).
IsIndexedIfExists(st, id) == st[id].exists

IsIndexed(st, id) == st[id].exists /\ st[id].index_metadata # None

\* _validate_doc_types; the detail of the error also lists the unknown names,
\* which the model leaves out.
validate_doc_types(doc_types) ==
    IF \E i \in DOMAIN doc_types : doc_types[i] \notin {"summary", "rows"}
    THEN HTTPException(400, "Unknown doc_types") ELSE Ok(None)

\* doc_types or ["summary", "rows"]
DocTypesValue(doc_types) ==
    IF doc_types # None /\ doc_types[1] # <<>> THEN doc_types[1] ELSE <<"summary", "rows">>

\* Lines 151-156 of search_dataset: the doc types to search, or the error raised.
search_precheck(st, id, doc_types) ==
    IF Failed(load_dataset(st, id)) THEN load_dataset(st, id)
    ELSE IF ~IsIndexed(st, id) THEN HTTPException(400, "Dataset not indexed yet.")
    ELSE IF Failed(validate_doc_types(DocTypesValue(doc_types)))
    THEN validate_doc_types(DocTypesValue(doc_types))
    ELSE Ok(DocTypesValue(doc_types))

\* The hit lists the vector index may return for `limit`: the matching points
\* ranked by a similarity the model does not compute, cut at `limit`.
RECURSIVE Rankings(_, _)
Rankings(matching, limit) ==
    IF limit = 0 \/ matching = {} THEN {<<>>}
    ELSE UNION {{<<q>> \o r : r \in Rankings(matching \ {q}, limit - 1)} : q \in matching}

\* The citation without the row range (mutant).
CitationOfDataset(dataset_id, row_start, row_end) == <<"dataset:", dataset_id>>

\* f"dataset:{dataset_id}" and, when the payload has both bounds, " rows:{a}-{b}"
Citation(dataset_id, row_start, row_end) ==
    <<"dataset:", dataset_id>>
    \o (IF row_start # None /\ row_end # None
        THEN <<" rows:">> \o Decimal(row_start[1]) \o <<"-">> \o Decimal(row_end[1])
        ELSE <<>>)

\* Lines 176-197 of search_dataset: one hit projected into a result.
SearchResult(dataset_id, hit) ==
    [source |-> [dataset_id |-> hit.payload.dataset_id, doc_type |-> hit.payload.doc_type,
                 row_start |-> hit.payload.row_start, row_end |-> hit.payload.row_end],
     citation |-> Citation(dataset_id, hit.payload.row_start, hit.payload.row_end)]

SearchResults(dataset_id, hits) == [i \in DOMAIN hits |-> SearchResult(dataset_id, hits[i])]

\* Lines 102-113 of chat_with_dataset: the three checks made before retrieval.
chat_precheck(st, id, config) ==
    IF Failed(load_dataset(st, id)) THEN load_dataset(st, id)
    ELSE IF ~IsIndexed(st, id) THEN HTTPException(400, "Dataset not indexed.")
    ELSE IF config.llm_api_key = None THEN HTTPException(400, "LLM not configured")
    ELSE Ok(None)

\* get_llm_client: the client, or the 400 raised.
get_llm_client(config) ==
    IF config.llm_provider # "openai_compatible"
    THEN HTTPException(400, "Unsupported LLM provider")
    ELSE IF config.llm_api_key = None \/ config.llm_base_url = None \/ config.llm_model = None
    THEN HTTPException(400, "LLM not configured")
    ELSE Ok(config)

\* What the provider may do with one POST /v1/chat/completions: a completion,
\* no answer at all, a status of 400 or more, a body that is not JSON, a JSON
\* object without choices, a JSON value that is not an object.
LLMOutcomes ==
    {"ok", "transport error", "error status", "not json", "no choices", "not an object"}

\* OpenAICompatibleClient.generate, given what the provider did.
generate(outcome) ==
    IF outcome \in {"transport error", "not json"}
    THEN HTTPException(502, "LLM provider error.")
    ELSE IF outcome = "error status"
    THEN HTTPException(502, "LLM provider error (status 500).")
    ELSE IF outcome = "not an object"
    THEN Unhandled
    ELSE Ok([text |-> IF outcome = "ok" THEN "answer" ELSE ""])

InsufficientContext == "Je n'ai pas assez d'infos dans le contexte fourni."

\* _build_citations
build_citations(contexts) ==
    [i \in DOMAIN contexts |->
        [citation |-> contexts[i].citation, doc_type |-> contexts[i].source.doc_type,
         row_start |-> contexts[i].source.row_start, row_end |-> contexts[i].source.row_end]]

\* _build_contexts
build_contexts(contexts) == [i \in DOMAIN contexts |-> [source |-> contexts[i].source]]

ChatResponse(answer, citations, contexts) ==
    Ok([answer |-> answer, citations |-> citations, contexts |-> contexts])

\* Lines 124-172 of chat_with_dataset (mutant: the model is asked even without
\* contexts): the response, and whether generate was called.
chat_answer_always_generates(contexts, config, outcome) ==
    IF Failed(get_llm_client(config))
    THEN [response |-> get_llm_client(config), generated |-> FALSE]
    ELSE IF Failed(generate(outcome))
    THEN [response |-> generate(outcome), generated |-> TRUE]
    ELSE [response |-> ChatResponse(generate(outcome).body.text,
                          build_citations(contexts), build_contexts(contexts)),
          generated |-> TRUE]

chat_answer(contexts, config, outcome) ==
    IF contexts = <<>>
    THEN [response |-> ChatResponse(InsufficientContext, <<>>, <<>>), generated |-> FALSE]
    ELSE IF Failed(get_llm_client(config))
    THEN [response |-> get_llm_client(config), generated |-> FALSE]
    ELSE IF Failed(generate(outcome))
    THEN [response |-> generate(outcome), generated |-> TRUE]
    ELSE [response |-> ChatResponse(generate(outcome).body.text,
                          build_citations(contexts), build_contexts(contexts)),
          generated |-> TRUE]

(***************************************************************************)
(* get_dataset_insights: profiling, anomalies and the insights.json cache. *)
(* The cells of the model are integers or missing, so every column is of   *)
(* type "numeric"; memory_estimate and the mean, std and percentiles of    *)
(* numeric_summary are left out.  A rate is its numerator and denominator. *)
(***************************************************************************)
InsightsSampleMax == 2      \* settings.insights_sample_max (50000 by default)
InsightsMissingTenths == 3  \* settings.insights_missing_threshold (0.3), in tenths
InsightsOutlierMethod == "iqr"

\* load_sample_frame: pd.read_csv(nrows = sample_rows)
load_sample_frame(file, sample_rows) == RowsHead(file.rows, sample_rows)

\* sample_df[column], column c of the frame
Series(sample_df, c) == [r \in DOMAIN sample_df |-> sample_df[r][c]]

\* build_dataset_overview
build_dataset_overview(metadata, sample_df) ==
    [rows |-> metadata.nb_rows, cols |-> metadata.nb_columns,
     missing_rate_global |->
        Rate(Cardinality({<<r, c>> \in (DOMAIN sample_df) \X (1..metadata.nb_columns) :
                             sample_df[r][c] = NA}),
             Max(Len(sample_df) * metadata.nb_columns, 1))]

\* _numeric_summary
numeric_summary(series) ==
    IF NumericLabels(series) = <<>> THEN None
    ELSE Some([min |-> OrderStat(series, 0),
               max |-> OrderStat(series, Len(NumericLabels(series)) - 1)])

\* build_column_profiles, the profile of one column
ColumnProfile(series) ==
    [type |-> "numeric",
     missing_rate |-> Rate(Len(series) - Len(NumericLabels(series)), Len(series)),
     unique_count |-> Cardinality({Value(series, i) : i \in Range(NumericLabels(series))}),
     numeric_summary |-> numeric_summary(series)]

build_column_profiles(columns, sample_df) ==
    [c \in DOMAIN columns |-> ColumnProfile(Series(sample_df, c))]

\* profile.missing_rate > missing_threshold, the threshold in tenths
OverThreshold(rate, tenths) == rate.den # 0 /\ 10 * rate.num > tenths * rate.den

\* build_anomalies lines 77-100, given the outliers found in each column, the
\* columns over the missing threshold and the columns that have outliers.
AnomaliesOf(columns, profiles, found, missing, flagged, outlier_method) ==
    [missing_columns |->
        [i \in DOMAIN missing |->
            [column |-> columns[missing[i]],
             missing_rate |-> profiles[missing[i]].missing_rate]],
     outliers |->
        [i \in DOMAIN flagged |->
            [column |-> columns[flagged[i]], method |-> outlier_method,
             indices |-> found[flagged[i]]]],
     suspect_values |-> <<>>]

\* build_anomalies: the columns are visited in order
build_anomalies(columns, sample_df, profiles, missing_tenths, outlier_method) ==
    Only({Only({AnomaliesOf(columns, profiles, found, missing, flagged, outlier_method)
                : missing \in {SelectSeq([c \in DOMAIN columns |-> c], LAMBDA c :
                                   OverThreshold(profiles[c].missing_rate, missing_tenths))},
                  flagged \in {SelectSeq([c \in DOMAIN columns |-> c], LAMBDA c :
                                   found[c] # <<>>)}})
          : found \in {[c \in DOMAIN columns |->
                           detect_outlier_indices(Series(sample_df, c), outlier_method)]}})

\* build_recommendations: each sentence with the columns it names
build_recommendations(anomalies) ==
    LET names(items) == [i \in DOMAIN items |-> items[i].column]
        recs == (IF anomalies.missing_columns # <<>>
                 THEN <<[text |-> "Review missing data for columns",
                         columns |-> names(anomalies.missing_columns)]>> ELSE <<>>)
             \o (IF anomalies.outliers # <<>>
                 THEN <<[text |-> "Inspect outliers in numeric columns",
                         columns |-> names(anomalies.outliers)]>> ELSE <<>>)
    IN  IF recs # <<>> THEN recs
        ELSE <<[text |-> "No major issues detected in the sampled data.", columns |-> <<>>]>>

\* Lines 40-41 of get_dataset_insights
insights_sample_rows(requested, sample_max, nb_rows) ==
    Min(Min(IF requested # None THEN requested[1] ELSE sample_max, sample_max), nb_rows)

\* Lines 52-65 of get_dataset_insights: the InsightsResponse.
InsightsResponse(metadata, payload, sample_df, profiles, anomalies, now) ==
    [dataset_id |-> metadata.dataset_id, generated_at |-> now,
     sample_rows_used |-> Len(sample_df), target_column |-> payload.target_column,
     dataset_overview |-> build_dataset_overview(metadata, sample_df),
     column_profiles |-> profiles, anomalies |-> anomalies,
     recommendations |-> build_recommendations(anomalies)]

\* Lines 45-65 of get_dataset_insights: the InsightsResponse computed at `now`.
compute_insights(metadata, file, payload, sample_rows, now) ==
    Only({Only({Only({InsightsResponse(metadata, payload, sample_df, profiles, anomalies, now)
        : anomalies \in {build_anomalies(metadata.columns, sample_df, profiles,
                                         InsightsMissingTenths, InsightsOutlierMethod)}})
        : profiles \in {build_column_profiles(metadata.columns, sample_df)}})
        : sample_df \in {load_sample_frame(file, sample_rows)}})

\* Lines 66-71 of get_dataset_insights: insights.json is written, the response returned.
Computed(st, id, insights) ==
    [storage |-> [st EXCEPT ![id].insights = Some(insights)],
     response |-> Ok(insights), computed |-> TRUE]

\* get_dataset_insights (mutant: the cache is never read): the storage it
\* leaves, the response, and whether the pipeline ran.
get_dataset_insights_uncached(st, id, payload, now) ==
    LET loaded == load_dataset(st, id)
        sample_rows == insights_sample_rows(payload.sample_rows, InsightsSampleMax,
                                            loaded.body.nb_rows)
    IN  IF Failed(loaded) THEN [storage |-> st, response |-> loaded, computed |-> FALSE]
        ELSE IF payload.target_column # None
                /\ payload.target_column[1] \notin Range(loaded.body.columns)
        THEN [storage |-> st, response |-> HTTPException(400, "Unknown target_column."),
              computed |-> FALSE]
        ELSE IF sample_rows <= 0
        THEN [storage |-> st, response |-> HTTPException(400, "sample_rows must be positive."),
              computed |-> FALSE]
        ELSE Only({Computed(st, id, insights)
                   : insights \in {compute_insights(loaded.body, st[id].raw[1], payload,
                                                    sample_rows, now)}})

get_dataset_insights(st, id, payload, now) ==
    LET loaded == load_dataset(st, id)
        sample_rows == insights_sample_rows(payload.sample_rows, InsightsSampleMax,
                                            loaded.body.nb_rows)
    IN  IF Failed(loaded) THEN [storage |-> st, response |-> loaded, computed |-> FALSE]
        ELSE IF payload.target_column # None
                /\ payload.target_column[1] \notin Range(loaded.body.columns)
        THEN [storage |-> st, response |-> HTTPException(400, "Unknown target_column."),
              computed |-> FALSE]
        ELSE IF st[id].insights # None /\ ~payload.force_recompute
        THEN [storage |-> st, response |-> Ok(st[id].insights[1]), computed |-> FALSE]
        ELSE IF sample_rows <= 0
        THEN [storage |-> st, response |-> HTTPException(400, "sample_rows must be positive."),
              computed |-> FALSE]
        ELSE Only({Computed(st, id, insights)
                   : insights \in {compute_insights(loaded.body, st[id].raw[1], payload,
                                                    sample_rows, now)}})

(***************************************************************************)
(* read_dataframe (preview and query), the charts service and the report.  *)
(***************************************************************************)
PreviewMaxRows == 2    \* settings.preview_max_rows (200 by default)
QueryMaxRows == 3      \* settings.query_max_rows (1000 by default)
ChartsMaxPoints == 2   \* settings.charts_max_points (50 by default)
ReportMaxCharts == 3   \* generate_report asks for max_charts = 3

\* The position of a column of the metadata.
Position(columns, name) == CHOOSE c \in DOMAIN columns : columns[c] = name

\* chunk[series == value] for every filter: the rows every filter accepts.
Filtered(rows, columns, filters) ==
    SelectSeq(rows, LAMBDA row :
        \A i \in DOMAIN filters : row[Position(columns, filters[i].col)] = Some(filters[i].value))

\* chunk[selected_columns]
Project(rows, columns, selected) ==
    [r \in DOMAIN rows |-> [i \in DOMAIN selected |-> rows[r][Position(columns, selected[i])]]]

\* read_dataframe: the selected columns and the rows, or the 400 raised.  A
\* filter is a column and the value its cells must equal.
read_dataframe(st, id, limit, columns, filters, max_rows) ==
    LET loaded == load_dataset(st, id)
        metadata == loaded.body
        selected_columns ==
            IF columns # None /\ columns[1] # <<>> THEN columns[1] ELSE metadata.columns
        filters_value == IF filters # None THEN filters[1] ELSE <<>>
        limit_value == Min(IF limit # None THEN limit[1] ELSE max_rows, max_rows)
        rows == Filtered(st[id].raw[1].rows, metadata.columns, filters_value)
    IN  IF Failed(loaded) THEN loaded
        ELSE IF limit # None /\ limit[1] <= 0 THEN HTTPException(400, "Limit must be positive.")
        ELSE IF \E i \in DOMAIN selected_columns :
                    selected_columns[i] \notin Range(metadata.columns)
        THEN HTTPException(400, "Unknown column")
        ELSE IF \E i \in DOMAIN filters_value :
                    filters_value[i].col \notin Range(metadata.columns)
        THEN HTTPException(400, "Unknown column")
        ELSE Ok([columns |-> selected_columns,
                 rows |-> Take(Project(rows, metadata.columns, selected_columns), limit_value)])

\* A query or body parameter the framework rejects before the endpoint runs.
Unprocessable == [status_code |-> 422, detail |-> "Unprocessable Entity"]

\* preview_dataset: limit is declared ge=1.
preview_dataset(st, id, limit) ==
    LET read == read_dataframe(st, id, Some(limit), None, None, PreviewMaxRows)
    IN  IF limit < 1 THEN Unprocessable
        ELSE IF Failed(read) THEN read
        ELSE Ok([dataset_id |-> id, columns |-> read.body.columns, rows |-> read.body.rows,
                 limit |-> Min(limit, PreviewMaxRows)])

\* query_dataset
query_dataset(st, id, payload) ==
    LET read == read_dataframe(st, id, payload.limit, payload.columns, payload.filters,
                               QueryMaxRows)
    IN  IF Failed(read) THEN read
        ELSE Ok([dataset_id |-> id, columns |-> read.body.columns, rows |-> read.body.rows])

\* InsightsRequest(sample_rows=settings.insights_sample_max, force_recompute=False)
ServiceInsightsRequest ==
    [sample_rows |-> Some(InsightsSampleMax), target_column |-> None, force_recompute |-> FALSE]

\* Lines 16-21 of charts_service.suggest_charts
charts_sample_rows(insights, metadata) ==
    Min(Min(IF insights.sample_rows_used # 0 THEN insights.sample_rows_used
            ELSE InsightsSampleMax, InsightsSampleMax), metadata.nb_rows)

\* Lines 22-30 of charts_service.suggest_charts
ChartsSuggestResponse(id, metadata, insights, sample_df, payload) ==
    Ok([dataset_id |-> id,
        charts |-> suggest_charts(insights.column_profiles, metadata.columns, sample_df,
                                  payload.question, payload.max_charts, ChartsMaxPoints)])

\* Lines 16-30 of charts_service.suggest_charts, once the insights are there.
Suggested(st, id, metadata, got, payload) ==
    IF Failed(got.response) THEN got
    ELSE Only({[storage |-> got.storage,
                response |-> ChartsSuggestResponse(id, metadata, got.response.body,
                                                   sample_df, payload),
                computed |-> got.computed]
               : sample_df \in {load_sample_frame(st[id].raw[1],
                                    charts_sample_rows(got.response.body, metadata))}})

\* charts_service.suggest_charts: the storage it leaves (get_dataset_insights may
\* write the cache), the response, and whether the insights were computed.
charts_suggest(st, id, payload, now) ==
    IF Failed(load_dataset(st, id))
    THEN [storage |-> st, response |-> load_dataset(st, id), computed |-> FALSE]
    ELSE Only({Suggested(st, id, metadata, got, payload)
               : metadata \in {load_dataset(st, id).body},
                 got \in {get_dataset_insights(st, id, ServiceInsightsRequest, now)}})

\* _should_use_llm
should_use_llm(config) ==
    /\ config.llm_provider = "openai_compatible"
    /\ config.llm_api_key # None /\ config.llm_base_url # None /\ config.llm_model # None

\* _build_report_template: the report is modelled by what it is written from.
build_report_template(insights, charts) ==
    [written_by |-> "template", overview |-> Some(insights.dataset_overview),
     charts |-> [i \in DOMAIN charts |-> ChartKey(charts[i])]]

\* The text of the LLM response, stripped, as a report.
LLMReport == [written_by |-> "llm", overview |-> None, charts |-> <<>>]

\* Lines 132-176 of generate_report: the report is generated, written to
\* report.md and returned, or the LLM client raises.
Reported(id, config, llm_response, got, suggested, now) ==
    LET report_markdown ==
            IF should_use_llm(config) /\ llm_response.body.text # ""
            THEN LLMReport
            ELSE build_report_template(got.response.body, suggested.response.body.charts)
    IN  IF should_use_llm(config) /\ Failed(llm_response)
        THEN [storage |-> suggested.storage, response |-> llm_response,
              computed |-> got.computed, generated |-> TRUE]
        ELSE [storage |-> [suggested.storage EXCEPT ![id].report = Some(report_markdown)],
              response |-> Ok([dataset_id |-> id, report_markdown |-> report_markdown,
                               used_llm |-> should_use_llm(config), generated_at |-> now]),
              computed |-> got.computed, generated |-> should_use_llm(config)]

\* Lines 127-130 of generate_report: the charts are suggested from the insights.
ReportFrom(id, config, outcome, got, now) ==
    IF Failed(got.response)
    THEN [storage |-> got.storage, response |-> got.response, computed |-> got.computed,
          generated |-> FALSE]
    ELSE Only({IF Failed(suggested.response)
               THEN [storage |-> suggested.storage, response |-> suggested.response,
                     computed |-> got.computed, generated |-> FALSE]
               ELSE Reported(id, config, generate(outcome), got, suggested, now)
               : suggested \in {charts_suggest(got.storage, id,
                                    [question |-> None, max_charts |-> ReportMaxCharts],
                                    now)}})

\* generate_report: the storage it leaves, the response, whether the insights
\* were computed and whether generate was called.
generate_report(st, id, config, outcome, now) ==
    IF Failed(load_dataset(st, id))
    THEN [storage |-> st, response |-> load_dataset(st, id), computed |-> FALSE,
          generated |-> FALSE]
    ELSE Only({ReportFrom(id, config, outcome, got, now)
               : got \in {get_dataset_insights(st, id, ServiceInsightsRequest, now)}})

(***************************************************************************)
(* Configuration and request inputs.                                       *)
(***************************************************************************)
EmbedDim == 2            \* length of the vectors of the configured embedding model
RagRowsPerDoc == 2       \* settings.rag_rows_per_doc (10 by default)
RagMaxRowsToIndex == 10  \* settings.rag_max_rows_to_index (50000 by default)
RagEmbedBatchSize == 2   \* settings.rag_embed_batch_size (64 by default)
MaxBuilds == 2           \* readings of the clock (index builds, insights) in one behaviour

\* settings.rag_embedding_model, and a model with longer vectors.
DefaultEmbeddingModel == "sentence-transformers/all-MiniLM-L6-v2"
EmbeddingModels == {DefaultEmbeddingModel, "another-model"}

\* len(vectors[0]) of embed_texts: the length of the vectors of the model the
\* embedding service loaded.
EmbeddingSize(config) ==
    IF config.rag_embedding_model = DefaultEmbeddingModel THEN EmbedDim ELSE EmbedDim + 1

LLMConfigured ==
    [llm_provider |-> "openai_compatible", llm_api_key |-> Some("key"),
     llm_base_url |-> Some("http://llm.local"), llm_model |-> Some("model"),
     rag_embedding_model |-> DefaultEmbeddingModel,
     rag_embed_batch_size |-> RagEmbedBatchSize]

\* The LLM fields of Settings a process may start with.
LLMConfigs ==
    {LLMConfigured,
     [LLMConfigured EXCEPT !.llm_api_key = None],
     [LLMConfigured EXCEPT !.llm_base_url = None],
     [LLMConfigured EXCEPT !.llm_provider = "other"]}

GoodUpload ==
    [filename |-> "data.csv", too_large |-> FALSE, utf8 |-> TRUE, sniffed |-> Some(<<";">>),
     has_header |-> TRUE, lines |-> <<<<ColA, ColAPadded>>>>, malformed |-> FALSE,
     rows |-> <<<<Some(1), Some(1)>>, <<Some(1), NA>>, <<NA, NA>>>>]

\* An upload and the delimiter query parameter given with it.
Upload(u, d) == [upload |-> u, delimiter |-> d]

GoodUploads == {Upload(GoodUpload, None)}

BadUploads ==
    {Upload([GoodUpload EXCEPT !.filename = "data.txt"], None),
     Upload([GoodUpload EXCEPT !.too_large = TRUE], None),
     Upload(GoodUpload, Some(<<";", ";">>)),
     Upload([GoodUpload EXCEPT !.has_header = FALSE], None),
     Upload([GoodUpload EXCEPT !.lines = <<>>], None),
     Upload([GoodUpload EXCEPT !.lines = <<<<ColA, CellEmpty>>>>], None),
     Upload([GoodUpload EXCEPT !.rows = <<>>], None),
     Upload([GoodUpload EXCEPT !.malformed = TRUE], None)}

DefaultIndex == [columns |-> None, max_rows |-> None, rows_per_doc |-> None, reindex |-> FALSE]

\* Bodies of POST /datasets/{id}/index, without the reindex flag.
GoodIndexBodies ==
    {DefaultIndex,
     [DefaultIndex EXCEPT !.rows_per_doc = Some(1)],
     [DefaultIndex EXCEPT !.max_rows = Some(2), !.columns = Some(<<ColA>>)]}

BadIndexBodies ==
    {[DefaultIndex EXCEPT !.columns = Some(<<ColB>>)],
     [DefaultIndex EXCEPT !.max_rows = Some(0)],
     [DefaultIndex EXCEPT !.rows_per_doc = Some(0)]}

WithReindex(bodies) == {[b EXCEPT !.reindex = r] : b \in bodies, r \in BOOLEAN}

\* Bodies of POST /datasets/{id}/search and of POST /chat.
SearchBodies ==
    {[top_k |-> 2, doc_types |-> None],
     [top_k |-> 1, doc_types |-> Some(<<"rows">>)],
     [top_k |-> 2, doc_types |-> Some(<<"pages">>)]}

\* Bodies of POST /datasets/{id}/insights.
DefaultInsights == [sample_rows |-> None, target_column |-> None, force_recompute |-> FALSE]

InsightsBodies ==
    {DefaultInsights,
     [DefaultInsights EXCEPT !.sample_rows = Some(1), !.force_recompute = TRUE],
     [DefaultInsights EXCEPT !.target_column = Some(ColA)],
     [DefaultInsights EXCEPT !.target_column = Some(ColB)]}

\* The limit parameter of GET /datasets/{id}/preview.
PreviewLimits == {0, 1, 3}

\* Bodies of POST /datasets/{id}/query.
DefaultQuery == [columns |-> None, filters |-> None, limit |-> None]

GoodQueries ==
    {DefaultQuery,
     [DefaultQuery EXCEPT !.columns = Some(<<ColADup1>>), !.limit = Some(1),
                          !.filters = Some(<<[col |-> ColA, value |-> 1]>>)]}

BadQueries ==
    {[DefaultQuery EXCEPT !.limit = Some(0)],
     [DefaultQuery EXCEPT !.columns = Some(<<ColB>>)],
     [DefaultQuery EXCEPT !.filters = Some(<<[col |-> ColB, value |-> 1]>>)]}

\* Bodies of POST /datasets/{id}/charts/suggest.
ChartBodies ==
    {[question |-> None, max_charts |-> 1],
     [question |-> Some(<<"H", "i", "s", "t", "o", "g", "r", "a", "m">>), max_charts |-> 3]}

\* A dataset id that is not a UUID.
InvalidId == "not-a-uuid"

\* What a specification lets the clients send: `limit` requests at a time.
Operations ==
    {"create", "get", "list", "index", "search", "chat", "insights",
     "preview", "query", "charts", "report"}

SeqInputs ==
    [limit |-> 1, ops |-> [p \in Slots |-> IF p = 1 THEN Operations ELSE {}],
     upload_ids |-> DatasetIds, datasets |-> {"d1"},
     uploads |-> GoodUploads \cup BadUploads,
     index_requests |-> WithReindex(GoodIndexBodies \cup BadIndexBodies),
     searches |-> SearchBodies, insights |-> InsightsBodies]

Init ==
    /\ call = NoCall
    /\ storage = [id \in DatasetIds |-> NoDir]
    /\ points = {}
    /\ collection = 0
    /\ \E llm \in LLMConfigs : settings = llm
    /\ procs = [p \in Slots |-> Idle]
    /\ clock = 0
    /\ failed_ids = {}

\* POST /datasets/upload: create_dataset, whole.  uuid4 gives an id never used before.
CreateDataset(p, in) ==
    /\ Free(p, in, "create")
    /\ \E id \in in.upload_ids, u \in in.uploads :
          /\ ~storage[id].exists /\ id \notin failed_ids
          /\ \E r \in {create_dataset(storage, id, u.upload, u.delimiter, SampleRows)} :
              /\ storage' = r.storage
              /\ failed_ids' = IF Failed(r.response) /\ r.written # {}
                               THEN failed_ids \cup {id} ELSE failed_ids
              /\ procs' = [procs EXCEPT ![p] =
                     [op |-> "create", pc |-> "done", dataset_id |-> id,
                      response |-> r.response, calls |-> NoCalls, written |-> r.written]]
    /\ UNCHANGED <<call, points, collection, settings, clock>>

\* GET /datasets/{dataset_id}: get_dataset, whole.
GetDataset(p, in) ==
    /\ Free(p, in, "get")
    /\ \E id \in in.datasets :
          procs' = [procs EXCEPT ![p] =
              [op |-> "get", pc |-> "done", dataset_id |-> id,
               response |-> load_dataset(storage, id), calls |-> NoCalls]]
    /\ UNCHANGED <<call, storage, points, collection, settings, clock, failed_ids>>

\* GET /datasets: list_datasets, whole.
ListDatasets(p, in) ==
    /\ Free(p, in, "list")
    /\ procs' = [procs EXCEPT ![p] =
           [op |-> "list", pc |-> "done", dataset_id |-> "",
            response |-> Ok(list_datasets(storage)), calls |-> NoCalls]]
    /\ UNCHANGED <<call, storage, points, collection, settings, clock, failed_ids>>

\* The response that ends the request of slot p.
Respond(p, response) == [procs[p] EXCEPT !.pc = "done", !.response = response]

\* POST /datasets/{dataset_id}/index, lines 78-89 of index_dataset: load_dataset
\* and the validation of the parameters.
IndexBegin(p, in) ==
    /\ Free(p, in, "index")
    /\ clock < MaxBuilds
    /\ \E id \in in.datasets, req \in in.index_requests :
          LET loaded == load_dataset(storage, id)
              params == index_params(loaded.body, req, RagRowsPerDoc, RagMaxRowsToIndex)
              start == [op |-> "index", pc |-> "done", dataset_id |-> id, req |-> req,
                        response |-> Ok(None), calls |-> NoCalls, loc |-> None,
                        old |-> StoredFor(points, id),
                        old_index |-> IndexMetadataOf(storage, id)]
          IN  procs' = [procs EXCEPT ![p] =
                  IF Failed(loaded) THEN [start EXCEPT !.response = loaded]
                  ELSE IF Failed(params) THEN [start EXCEPT !.response = params]
                  ELSE [start EXCEPT
                          !.pc = IF req.reindex THEN "delete" ELSE "build",
                          !.loc = [metadata |-> loaded.body, params |-> params.body,
                                   documents |-> <<>>, doc_index |-> 0, batch_start |-> 0,
                                   vector_store |-> FALSE, vectors_upserted |-> 0]]]
    /\ UNCHANGED <<call, storage, points, collection, settings, clock, failed_ids>>

\* Line 92: VectorStore().delete(dataset_id)
IndexDelete(p) ==
    /\ procs[p].op = "index" /\ procs[p].pc = "delete"
    /\ points' = vs_delete(points, collection, procs[p].dataset_id)
    /\ procs' = [procs EXCEPT ![p].pc = "unlink"]
    /\ UNCHANGED <<call, storage, collection, settings, clock, failed_ids>>

\* Lines 93-95 with the path of raw.csv (mutant): the raw file is removed.
IndexUnlinkRaw(p) ==
    /\ procs[p].op = "index" /\ procs[p].pc = "unlink"
    /\ storage' = [storage EXCEPT ![procs[p].dataset_id].raw = None]
    /\ procs' = [procs EXCEPT ![p].pc = "build"]
    /\ UNCHANGED <<call, points, collection, settings, clock, failed_ids>>

\* Lines 93-95: index_metadata.json is removed if it exists.
IndexUnlink(p) ==
    /\ procs[p].op = "index" /\ procs[p].pc = "unlink"
    /\ storage' = [storage EXCEPT ![procs[p].dataset_id].index_metadata = None]
    /\ procs' = [procs EXCEPT ![p].pc = "build"]
    /\ UNCHANGED <<call, points, collection, settings, clock, failed_ids>>

\* Lines 97-107: the documents are generated, stamped with the time of the build.
IndexBuild(p) ==
    /\ procs[p].op = "index" /\ procs[p].pc = "build"
    /\ LET l == procs[p].loc
           documents == iter_documents(l.metadata, l.params.columns, l.params.max_rows,
                                       l.params.rows_per_doc, clock)
       IN  procs' = [procs EXCEPT ![p] =
               IF documents = <<>>
               THEN Respond(p, HTTPException(400, "No documents to index."))
               ELSE [procs[p] EXCEPT !.pc = "batch", !.loc.documents = documents]]
    /\ clock' = clock + 1
    /\ UNCHANGED <<call, storage, points, collection, settings, failed_ids>>

\* Lines 109-129, one iteration: the batch is embedded, the collection is
\* ensured before the first upsert, the points are upserted.  The embedding
\* model or the vector index may raise.
IndexBatch(p) ==
    /\ procs[p].op = "index" /\ procs[p].pc = "batch"
    /\ \E outcome \in {"ok", "embed raises", "upsert raises"} :
          LET l == procs[p].loc
              id == procs[p].dataset_id
              batch_size == settings.rag_embed_batch_size
              batch == Batch(l.documents, l.batch_start, batch_size)
              ensured == IF l.vector_store THEN collection
                         ELSE ensure_collection(collection, EmbeddingSize(settings))
              embedded == [procs[p] EXCEPT !.calls.embed = @ + 1]
              last == l.batch_start + batch_size >= Len(l.documents)
          IN  IF outcome = "embed raises"
              THEN /\ procs' = [procs EXCEPT ![p] =
                          [embedded EXCEPT !.pc = "done", !.response = Unhandled]]
                   /\ UNCHANGED <<points, collection>>
              ELSE IF ensured = 0
              THEN /\ procs' = [procs EXCEPT ![p] =
                          [embedded EXCEPT !.pc = "done", !.response =
                              HTTPException(400, "Embedding size mismatch. Reindex the dataset.")]]
                   /\ UNCHANGED <<points, collection>>
              ELSE IF outcome = "upsert raises"
              THEN /\ procs' = [procs EXCEPT ![p] =
                          [embedded EXCEPT !.pc = "done", !.response = Unhandled]]
                   /\ collection' = ensured
                   /\ UNCHANGED points
              ELSE /\ points' = upsert(points,
                                      BatchPoints(id, batch, l.doc_index, EmbeddingSize(settings)))
                   /\ collection' = ensured
                   /\ procs' = [procs EXCEPT ![p] =
                          [embedded EXCEPT
                              !.pc = IF last THEN "write" ELSE "batch",
                              !.loc.vector_store = TRUE,
                              !.loc.doc_index = @ + Len(batch),
                              !.loc.batch_start = @ + batch_size,
                              !.loc.vectors_upserted = @ + Len(batch)]]
    /\ UNCHANGED <<call, storage, settings, clock, failed_ids>>

\* Lines 131-142: index_metadata.json is written and the counts are returned.
IndexWrite(p) ==
    /\ procs[p].op = "index" /\ procs[p].pc = "write"
    /\ LET l == procs[p].loc
           id == procs[p].dataset_id
       IN  /\ storage' = [storage EXCEPT ![id].index_metadata =
                   Some(IndexMetadata(id, Len(l.documents), l.params, clock))]
           /\ procs' = [procs EXCEPT ![p] =
                   Respond(p, Ok([nb_docs |-> Len(l.documents),
                                  vectors_upserted |-> l.vectors_upserted]))]
    /\ UNCHANGED <<call, points, collection, settings, clock, failed_ids>>

\* POST /datasets/{dataset_id}/search, lines 151-156 of search_dataset.
SearchBegin(p, in) ==
    /\ Free(p, in, "search")
    /\ \E id \in in.datasets, req \in in.searches :
          LET checked == search_precheck(storage, id, req.doc_types)
              start == [op |-> "search", pc |-> "done", dataset_id |-> id, req |-> req,
                        response |-> Ok(None), calls |-> NoCalls, loc |-> None]
          IN  procs' = [procs EXCEPT ![p] =
                  IF Failed(checked) THEN [start EXCEPT !.response = checked]
                  ELSE [start EXCEPT !.pc = "query",
                                     !.loc = [doc_types |-> checked.body, contexts |-> <<>>]]]
    /\ UNCHANGED <<call, storage, points, collection, settings, clock, failed_ids>>

\* POST /chat, lines 102-113 of chat_with_dataset.
ChatBegin(p, in) ==
    /\ Free(p, in, "chat")
    /\ \E id \in in.datasets, req \in in.searches :
          LET checked == chat_precheck(storage, id, settings)
              start == [op |-> "chat", pc |-> "done", dataset_id |-> id, req |-> req,
                        response |-> Ok(None), calls |-> NoCalls, loc |-> None]
          IN  procs' = [procs EXCEPT ![p] =
                  IF Failed(checked) THEN [start EXCEPT !.response = checked]
                  ELSE [start EXCEPT !.pc = "search",
                                     !.loc = [doc_types |-> <<>>, contexts |-> <<>>,
                                              provider |-> None]]]
    /\ UNCHANGED <<call, storage, points, collection, settings, clock, failed_ids>>

\* chat_with_dataset line 116 enters search_dataset: its lines 151-156.
ChatSearch(p) ==
    /\ procs[p].op = "chat" /\ procs[p].pc = "search"
    /\ LET checked == search_precheck(storage, procs[p].dataset_id, procs[p].req.doc_types)
       IN  procs' = [procs EXCEPT ![p] =
               IF Failed(checked) THEN Respond(p, checked)
               ELSE [procs[p] EXCEPT !.pc = "query", !.loc.doc_types = checked.body]]
    /\ UNCHANGED <<call, storage, points, collection, settings, clock, failed_ids>>

\* Lines 158-197 of search_dataset: the query is embedded, the collection ensured
\* and searched, the hits projected.  A search request is answered; a chat goes on.
SearchQuery(p) ==
    /\ procs[p].op \in {"search", "chat"} /\ procs[p].pc = "query"
    /\ \E outcome \in {"ok", "embed raises"} :
          LET id == procs[p].dataset_id
              ensured == ensure_collection(collection, EmbeddingSize(settings))
              embedded == [procs[p] EXCEPT !.calls.embed = @ + 1]
              searched == [embedded EXCEPT !.calls.search = @ + 1]
          IN  IF outcome = "embed raises"
              THEN /\ procs' = [procs EXCEPT ![p] =
                          [embedded EXCEPT !.pc = "done", !.response = Unhandled]]
                   /\ UNCHANGED collection
              ELSE IF ensured = 0
              THEN /\ procs' = [procs EXCEPT ![p] =
                          [embedded EXCEPT !.pc = "done", !.response =
                              HTTPException(400, "Embedding size mismatch. Reindex the dataset.")]]
                   /\ UNCHANGED collection
              ELSE /\ collection' = ensured
                   /\ \E hits \in Rankings(Matching(points, id, procs[p].loc.doc_types),
                                            procs[p].req.top_k) :
                         procs' = [procs EXCEPT ![p] =
                             IF procs[p].op = "search"
                             THEN [searched EXCEPT !.pc = "done",
                                      !.response = Ok(SearchResults(id, hits))]
                             ELSE [searched EXCEPT !.pc = "answer",
                                      !.loc.contexts = SearchResults(id, hits)]]
    /\ UNCHANGED <<call, storage, points, settings, clock, failed_ids>>

\* Lines 124-172 of chat_with_dataset: the canned answer when nothing was
\* retrieved, else one call of the text-generation service.
ChatAnswer(p) ==
    /\ procs[p].op = "chat" /\ procs[p].pc = "answer"
    /\ \E outcome \in LLMOutcomes :
          LET a == chat_answer(procs[p].loc.contexts, settings, outcome)
          IN  procs' = [procs EXCEPT ![p] =
                  [procs[p] EXCEPT !.pc = "done", !.response = a.response,
                      !.calls.generate = IF a.generated THEN @ + 1 ELSE @,
                      !.loc.provider = IF a.generated THEN Some(outcome) ELSE None]]
    /\ UNCHANGED <<call, storage, points, collection, settings, clock, failed_ids>>

\* POST /datasets/{dataset_id}/insights: get_dataset_insights, whole.  The slot
\* keeps the cache the request found.
GetInsights(p, in) ==
    /\ Free(p, in, "insights")
    /\ \E id \in in.datasets, req \in in.insights :
          \E r \in {get_dataset_insights(storage, id, req, clock)} :
              /\ r.computed => clock < MaxBuilds
              /\ storage' = r.storage
              /\ clock' = IF r.computed THEN clock + 1 ELSE clock
              /\ procs' = [procs EXCEPT ![p] =
                     [op |-> "insights", pc |-> "done", dataset_id |-> id, req |-> req,
                      response |-> r.response, calls |-> NoCalls, computed |-> r.computed,
                      found |-> IF id \in DatasetIds /\ storage[id].exists
                                THEN storage[id].insights ELSE None]]
    /\ UNCHANGED <<call, points, collection, settings, failed_ids>>

\* GET /datasets/{dataset_id}/preview: preview_dataset, whole.
Preview(p, in) ==
    /\ Free(p, in, "preview")
    /\ \E id \in in.datasets, limit \in in.previews :
          procs' = [procs EXCEPT ![p] =
              [op |-> "preview", pc |-> "done", dataset_id |-> id, req |-> [limit |-> limit],
               response |-> preview_dataset(storage, id, limit), calls |-> NoCalls]]
    /\ UNCHANGED <<call, storage, points, collection, settings, clock, failed_ids>>

\* POST /datasets/{dataset_id}/query: query_dataset, whole.
Query(p, in) ==
    /\ Free(p, in, "query")
    /\ \E id \in in.datasets, req \in in.queries :
          procs' = [procs EXCEPT ![p] =
              [op |-> "query", pc |-> "done", dataset_id |-> id, req |-> req,
               response |-> query_dataset(storage, id, req), calls |-> NoCalls]]
    /\ UNCHANGED <<call, storage, points, collection, settings, clock, failed_ids>>

\* POST /datasets/{dataset_id}/charts/suggest: charts_service.suggest_charts, whole.
SuggestCharts(p, in) ==
    /\ Free(p, in, "charts")
    /\ \E id \in in.datasets, req \in in.charts :
          \E r \in {charts_suggest(storage, id, req, clock)} :
              /\ r.computed => clock < MaxBuilds
              /\ storage' = r.storage
              /\ clock' = IF r.computed THEN clock + 1 ELSE clock
              /\ procs' = [procs EXCEPT ![p] =
                     [op |-> "charts", pc |-> "done", dataset_id |-> id, req |-> req,
                      response |-> r.response, calls |-> NoCalls, computed |-> r.computed]]
    /\ UNCHANGED <<call, points, collection, settings, failed_ids>>

\* POST /datasets/{dataset_id}/report: generate_report, whole.
Report(p, in) ==
    /\ Free(p, in, "report")
    /\ \E id \in in.datasets, outcome \in LLMOutcomes :
          \E r \in {generate_report(storage, id, settings, outcome, clock)} :
              /\ r.computed => clock < MaxBuilds
              /\ storage' = r.storage
              /\ clock' = IF r.computed THEN clock + 1 ELSE clock
              /\ procs' = [procs EXCEPT ![p] =
                     [op |-> "report", pc |-> "done", dataset_id |-> id,
                      response |-> r.response,
                      calls |-> [NoCalls EXCEPT !.generate = IF r.generated THEN 1 ELSE 0],
                      computed |-> r.computed]]
    /\ UNCHANGED <<call, points, collection, settings, failed_ids>>

NextOf(in) ==
    \E p \in Slots :
        \/ GetInsights(p, in)
        \/ SearchBegin(p, in)
        \/ ChatBegin(p, in)
        \/ ChatSearch(p)
        \/ SearchQuery(p)
        \/ ChatAnswer(p)
        \/ CreateDataset(p, in)
        \/ GetDataset(p, in)
        \/ ListDatasets(p, in)
        \/ IndexBegin(p, in)
        \/ IndexDelete(p)
        \/ IndexUnlink(p)
        \/ IndexBuild(p)
        \/ IndexBatch(p)
        \/ IndexWrite(p)

\* Spec: one request at a time, each handler run from its first line to its response.
Next == NextOf(SeqInputs)

Spec == Init /\ [][Next]_vars

\* SpecAll: one request at a time on one dataset, every endpoint of the datasets
\* router and the chat, with the invalid requests of each.
AllInputs ==
    [limit |-> 1, ops |-> [p \in Slots |-> IF p = 1 THEN Operations ELSE {}],
     upload_ids |-> {"d1"}, datasets |-> {"d1", InvalidId},
     uploads |-> {Upload(GoodUpload, None),
                  Upload(GoodUpload, Some(<<>>)),
                  Upload(GoodUpload, Some(<<";", ";">>)),
                  Upload([GoodUpload EXCEPT !.filename = "data.txt"], None)},
     index_requests |-> WithReindex({DefaultIndex} \cup BadIndexBodies),
     searches |-> {[top_k |-> 2, doc_types |-> None]},
     insights |-> {DefaultInsights, [DefaultInsights EXCEPT !.force_recompute = TRUE]},
     previews |-> PreviewLimits, queries |-> GoodQueries \cup BadQueries,
     charts |-> ChartBodies]

NextAll ==
    \/ NextOf(AllInputs)
    \/ \E p \in Slots :
          \/ Preview(p, AllInputs)
          \/ Query(p, AllInputs)
          \/ SuggestCharts(p, AllInputs)
          \/ Report(p, AllInputs)

SpecAll == Init /\ [][NextAll]_vars

\* SpecConc: a request that writes (upload, index) and a request that reads (get,
\* list, search, chat) at a time on one dataset, interleaved step by step (the
\* endpoints are synchronous functions, which the framework runs on a pool of
\* threads; nothing in the handlers locks a dataset).
ConcInputs ==
    [limit |-> 2,
     ops |-> [p \in Slots |-> IF p = 1 THEN {"create", "index", "insights"}
                                       ELSE {"get", "list", "search", "chat"}],
     upload_ids |-> {"d1"}, datasets |-> {"d1"}, uploads |-> GoodUploads,
     index_requests |-> {[b EXCEPT !.reindex = TRUE] : b \in GoodIndexBodies},
     searches |-> {[top_k |-> 2, doc_types |-> None]},
     insights |-> {DefaultInsights}]

NextConc == NextOf(ConcInputs)

SpecConc == Init /\ [][NextConc]_vars

(***************************************************************************)
(* Properties of outlier detection (SpecPure).                             *)
(***************************************************************************)
\* The numbers of a series.
Numbers(series) == {Value(series, i) : i \in Range(NumericLabels(series))}

\* Q3 - Q1 = 0 on a series that has numbers.
ZeroIqr(series) ==
    Numbers(series) # {} /\ Quantile4(series, 3) = Quantile4(series, 1)

ChartsWithinLimits ==
    Returned("suggest_charts") =>
        /\ Len(call.ret) <= call.args.max_charts
        /\ \A i \in DOMAIN call.ret :
              \A f \in DOMAIN call.ret[i].data_preview :
                  Len(call.ret[i].data_preview[f]) <= call.args.max_points

\* A call that had more to show than it was allowed: a categorical column of
\* three different values charted with two points, among max_charts charts.
ChartsWithinLimitsWitness ==
    /\ Returned("suggest_charts")
    /\ call.args.max_points = 2
    /\ Len(call.ret) = call.args.max_charts
    /\ \E i \in DOMAIN call.ret, c \in 1..3 :
          /\ call.ret[i].type = "bar"
          /\ call.ret[i].x = Some(ChartColumns[c])
          /\ Cardinality(Values(Col(call.args.df, c))) = 3
          /\ Len(call.ret[i].data_preview.x) = 2

\* The column positions of a type in the profiles the call was given.
ArgColumns(type) == ColumnsOfType([c \in 1..3 |-> [type |-> call.args.types[c]]], type)

\* The chart the question of the call asks for, or None.
AskedChart ==
    QuestionChart(call.args.df, ChartColumns, ArgColumns("numeric"),
                  ArgColumns("categorical"), ArgColumns("datetime"),
                  call.args.question, call.args.max_points)

\* The charts the four backfill steps of the call can build, in their order:
\* None where the columns or the data are missing.
BackfillCharts ==
    LET df == call.args.df
        numeric_cols == ArgColumns("numeric")
        categorical_cols == ArgColumns("categorical")
        datetime_cols == ArgColumns("datetime")
        max_points == call.args.max_points
    IN  <<IF datetime_cols = <<>> THEN None
          ELSE build_line_chart(df, ChartColumns, datetime_cols[1],
                                FirstOrNone(numeric_cols), max_points, "Time-based overview."),
          IF categorical_cols = <<>> THEN None
          ELSE build_bar_chart(df, ChartColumns, categorical_cols[1],
                               FirstOrNone(numeric_cols), max_points, "Category comparison."),
          IF Len(numeric_cols) < 2 THEN None
          ELSE build_scatter_chart(df, ChartColumns, numeric_cols[1], numeric_cols[2],
                                   max_points, "Relationship between numeric features."),
          IF numeric_cols = <<>> THEN None
          ELSE build_histogram_chart(df, ChartColumns, numeric_cols[1], max_points,
                                     "Distribution of numeric values.")>>

\* C24: the charts returned have pairwise different (type, x, y, aggregation)
\* keys, and a backfill chart that repeats the key of the chart the question
\* asked for takes no place: there are as many charts as there are different
\* keys among the charts that could be built, up to max_charts.
ChartKeysDistinct ==
    Returned("suggest_charts") =>
        LET candidates == SelectSeq(<<AskedChart>> \o BackfillCharts, LAMBDA c : c # None)
            keys == {ChartKey(candidates[i][1]) : i \in DOMAIN candidates}
        IN  /\ \A i, j \in DOMAIN call.ret :
                  i # j => ChartKey(call.ret[i]) # ChartKey(call.ret[j])
            /\ \A i \in DOMAIN call.ret : Some(call.ret[i]) \in Range(candidates)
            /\ Len(call.ret) = Min(call.args.max_charts, Cardinality(keys))

\* The question asked for the line chart the backfill would also build: the
\* second of the two places went to the bar chart.
ChartKeysWitness ==
    /\ Returned("suggest_charts") /\ call.args.max_charts = 2
    /\ AskedChart # None /\ BackfillCharts[1] # None
    /\ ChartKey(AskedChart[1]) = ChartKey(BackfillCharts[1][1])
    /\ Len(call.ret) = 2
    /\ call.ret[1] = AskedChart[1] /\ call.ret[2].type = "bar"

\* The notes of the question-driven charts, by keyword category.
RequestedNotes ==
    [trend |-> "Requested trend over time.", distribution |-> "Requested distribution view.",
     comparison |-> "Requested comparison between categories.",
     share |-> "Requested proportional view."]

\* The first keyword category, in the order trend, distribution, comparison,
\* share, that the question of the call matches, or "none".
AskedCategory ==
    LET normalized == normalize_question(call.args.question[1])
    IN  IF contains_any(normalized, TrendKeywords) THEN "trend"
        ELSE IF contains_any(normalized, DistributionKeywords) THEN "distribution"
        ELSE IF contains_any(normalized, CompareKeywords) THEN "comparison"
        ELSE IF contains_any(normalized, ShareKeywords) THEN "share"
        ELSE "none"

\* The columns the category needs.
AskedBucket ==
    IF AskedCategory = "trend" THEN ArgColumns("datetime")
    ELSE IF AskedCategory = "distribution" THEN ArgColumns("numeric")
    ELSE IF AskedCategory \in {"comparison", "share"} THEN ArgColumns("categorical")
    ELSE <<>>

\* The positions of the question-driven charts in the result.
RequestedIn(charts) ==
    {i \in DOMAIN charts : \E c \in DOMAIN RequestedNotes : charts[i].notes = RequestedNotes[c]}

\* C25: with a question, at most one question-driven chart is in the result, and
\* only at the first place; it is the chart of the first category the question
\* matches in the order trend, distribution, comparison, share, and there is
\* none when that category has no column, whatever else the question matches.
FirstCategoryOnly ==
    Returned("suggest_charts") /\ call.args.question # None /\ call.args.question[1] # <<>> =>
        /\ RequestedIn(call.ret) \subseteq {1}
        /\ AskedBucket = <<>> => RequestedIn(call.ret) = {}
        /\ RequestedIn(call.ret) = {1} => call.ret[1].notes = RequestedNotes[AskedCategory]
        /\ AskedChart # None => RequestedIn(call.ret) = {1} /\ call.ret[1] = AskedChart[1]

\* The question names a trend and a comparison and there is no datetime column:
\* the bar chart of the result is the backfill one.
FirstCategoryWitness ==
    /\ Returned("suggest_charts")
    /\ call.args.question = Some(<<"t", "o", "p", " ", "t", "r", "e", "n", "d">>)
    /\ ArgColumns("datetime") = <<>> /\ ArgColumns("categorical") # <<>>
    /\ call.ret # <<>> /\ call.ret[1].type = "bar"
    /\ call.ret[1].notes = "Category comparison."

(***************************************************************************)
(* Properties of the requests, one at a time (Spec).                       *)
(***************************************************************************)
\* An index request that was answered with its counts.
Indexed(p) == Done(p, "index") /\ ~Failed(procs[p].response)

\* C1: when an index request with reindex = true has succeeded, the records
\* stored for the dataset are exactly the records of this build: none of the
\* records it found is left, and there are as many as the nb_docs it reports.
ReindexReplacesRecords ==
    \A p \in Slots :
        Indexed(p) /\ procs[p].req.reindex =>
            LET id == procs[p].dataset_id
                l == procs[p].loc
                stored == StoredFor(points, id)
            IN  /\ stored = BatchPoints(id, l.documents, 0, EmbeddingSize(settings))
                /\ stored \cap procs[p].old = {}
                /\ Cardinality(stored) = procs[p].response.body.nb_docs

\* A reindex has succeeded on a dataset that held more records than it built.
ReindexWitness ==
    \E p \in Slots :
        /\ Indexed(p) /\ procs[p].req.reindex
        /\ Cardinality(procs[p].old) > procs[p].response.body.nb_docs

\* The records the index request of slot p has upserted so far.
Written(p) ==
    LET l == procs[p].loc
    IN  BatchPoints(procs[p].dataset_id, SubSeq(l.documents, 1, l.vectors_upserted), 0,
                    EmbeddingSize(settings))

\* The index request of slot p has failed after it upserted a batch.
FailedAfterWriting(p) ==
    /\ Done(p, "index") /\ Failed(procs[p].response)
    /\ procs[p].loc # None /\ procs[p].loc.vectors_upserted > 0

\* C15: when an index request has failed after it started writing, none of the
\* records the failed run wrote is left in the collection, and no index metadata
\* reports the dataset as indexed by that run.
FailedIndexLeavesNothing ==
    \A p \in Slots :
        FailedAfterWriting(p) =>
            LET id == procs[p].dataset_id
                l == procs[p].loc
            IN  /\ points \cap Written(p) = {}
                /\ \/ storage[id].index_metadata = None
                   \/ storage[id].index_metadata[1].created_at # l.documents[1].created_at

\* The dataset of the request of slot p is on disk and has no index_metadata.json.
Unindexed(p) ==
    /\ ~Failed(load_dataset(storage, procs[p].dataset_id))
    /\ storage[procs[p].dataset_id].index_metadata = None

\* C2: a search or a chat on an existing dataset that has no index metadata is
\* answered with the 'not indexed' error, and has called neither the embedding
\* model, nor the vector search, nor the text-generation service.
UnindexedFailsBeforeAnyCall ==
    \A p \in Slots :
        /\ Done(p, "search") /\ Unindexed(p) =>
               /\ procs[p].response = HTTPException(400, "Dataset not indexed yet.")
               /\ procs[p].calls = NoCalls
        /\ Done(p, "chat") /\ Unindexed(p) =>
               /\ procs[p].response = HTTPException(400, "Dataset not indexed.")
               /\ procs[p].calls = NoCalls

\* A chat was refused on a dataset whose failed index attempt left records behind.
UnindexedWitness ==
    \E p \in Slots :
        /\ Done(p, "chat") /\ Unindexed(p)
        /\ procs[p].response = HTTPException(400, "Dataset not indexed.")
        /\ StoredFor(points, procs[p].dataset_id) # {}

\* C4: an upload that failed after its filename was accepted has left no
\* directory, was answered with one error, and its id is seen by no later
\* list_datasets or load_dataset.
FailedUploadLeavesNothing ==
    /\ \A id \in failed_ids :
          /\ storage[id] = NoDir
          /\ id \notin list_datasets(storage)
          /\ load_dataset(storage, id) = HTTPException(404, "Dataset not found.")
    /\ \A p \in Slots :
          /\ Done(p, "create") /\ procs[p].dataset_id \in failed_ids =>
                IsError(procs[p].response) /\ Failed(procs[p].response)
          /\ Done(p, "get") /\ procs[p].dataset_id \in failed_ids =>
                procs[p].response = HTTPException(404, "Dataset not found.")
          /\ Done(p, "list") => procs[p].response.body \cap failed_ids = {}

\* A dataset was asked for by the id of an upload that had failed.
FailedUploadWitness ==
    \E p \in Slots : Done(p, "get") /\ procs[p].dataset_id \in failed_ids

\* An insights request that was answered with an InsightsResponse.
Insighted(p) == Done(p, "insights") /\ ~Failed(procs[p].response)

\* C12: an insights request that finds a cache and does not force recomputation
\* returns the cached object (same generated_at), computes nothing and leaves
\* the cache as it was; one that finds no cache or forces recomputation runs the
\* pipeline at the current time and persists its result; either way the cache
\* then holds exactly the object returned.
InsightsCache ==
    \A p \in Slots :
        Insighted(p) =>
            LET id == procs[p].dataset_id
                hit == procs[p].found # None /\ ~procs[p].req.force_recompute
            IN  /\ storage[id].insights = Some(procs[p].response.body)
                /\ hit => /\ ~procs[p].computed
                          /\ Some(procs[p].response.body) = procs[p].found
                          /\ storage[id].insights = procs[p].found
                /\ ~hit => /\ procs[p].computed
                           /\ procs[p].response.body.generated_at = clock - 1
                           /\ procs[p].response.body.target_column = procs[p].req.target_column

\* A request for another target column was answered from the cache.
InsightsCacheWitness ==
    \E p \in Slots :
        /\ Insighted(p) /\ procs[p].found # None /\ ~procs[p].req.force_recompute
        /\ procs[p].req.target_column # procs[p].response.body.target_column

\* C30 as stated: every insights request that succeeds returns a result with
\* the target_column of the request and with sample_rows_used equal to the
\* least of the requested sample_rows, the configured maximum and the row count
\* of the dataset, also when it finds a cache and does not force recomputation.
InsightsReflectRequest ==
    \A p \in Slots :
        Insighted(p) =>
            /\ procs[p].response.body.target_column = procs[p].req.target_column
            /\ procs[p].response.body.sample_rows_used =
                   insights_sample_rows(procs[p].req.sample_rows, InsightsSampleMax,
                                        storage[procs[p].dataset_id].metadata[1].nb_rows)

\* What does hold: a request that computes reflects its parameters.
ComputedInsightsReflectRequest ==
    \A p \in Slots :
        Insighted(p) /\ procs[p].computed =>
            /\ procs[p].response.body.target_column = procs[p].req.target_column
            /\ procs[p].response.body.sample_rows_used =
                   insights_sample_rows(procs[p].req.sample_rows, InsightsSampleMax,
                                        storage[procs[p].dataset_id].metadata[1].nb_rows)

(***************************************************************************)
(* Properties of a chat that runs while the dataset is reindexed (SpecConc).*)
(***************************************************************************)
\* The chat of slot p was answered after a retrieval that returned no hit.
NoHits(p) ==
    /\ Done(p, "chat") /\ procs[p].calls.search = 1
    /\ procs[p].loc.contexts = <<>>

\* C9: a chat whose retrieval returned no hit is answered with the fixed
\* insufficient-context answer, with no citation and no context, and has not
\* called the text-generation service.
NoHitsCannedAnswer ==
    \A p \in Slots :
        NoHits(p) =>
            /\ procs[p].response = ChatResponse(InsufficientContext, <<>>, <<>>)
            /\ procs[p].calls.generate = 0

\* A chat found nothing: the records were deleted by a reindex after its checks.
NoHitsWitness == \E p \in Slots : NoHits(p) /\ ~Failed(procs[p].response)

\* C10 as stated: with no usable text-generation configuration (get_llm_client
\* would raise 'LLM not configured'), a chat that found the dataset indexed is
\* answered with that error, never with a ChatResponse, and calls no generation.
\* (The failure of the embedding model is left out: it is another error.)
ChatWithoutLLMFails ==
    \A p \in Slots :
        /\ Done(p, "chat")
        /\ get_llm_client(settings) = HTTPException(400, "LLM not configured")
        /\ procs[p].response \notin
               {HTTPException(404, "Dataset not found."),
                HTTPException(400, "Dataset not indexed."),
                HTTPException(400, "Dataset not indexed yet."),
                HTTPException(400, "Unknown doc_types"), Unhandled}
        => /\ procs[p].response = HTTPException(400, "LLM not configured")
           /\ procs[p].calls.generate = 0

\* The chat of slot p called the text-generation service and the provider did
\* not answer with a completion.
GenerationFailed(p) ==
    /\ Done(p, "chat") /\ procs[p].loc # None
    /\ procs[p].loc.provider # None /\ procs[p].loc.provider[1] # "ok"

\* C17 as stated: a chat calls the text-generation service at most once, and a
\* transport error, an error status or a malformed response of that call is
\* answered with the 502 of an upstream failure, never with a ChatResponse.
GenerationFailureIs502 ==
    \A p \in Slots :
        /\ procs[p].op = "chat" => procs[p].calls.generate <= 1
        /\ GenerationFailed(p) => procs[p].response.status_code = 502

(***************************************************************************)
(* SpecMulti: one request at a time on two datasets that share the         *)
(* collection.                                                             *)
(***************************************************************************)
MultiInputs ==
    [limit |-> 1, ops |-> [p \in Slots |-> IF p = 1 THEN Operations ELSE {}],
     upload_ids |-> DatasetIds, datasets |-> DatasetIds, uploads |-> GoodUploads,
     index_requests |-> WithReindex({DefaultIndex}),
     searches |-> SearchBodies, insights |-> {DefaultInsights}]

NextMulti == NextOf(MultiInputs)

SpecMulti == Init /\ [][NextMulti]_vars

\* The results of the search request that slot p has answered.
Results(p) == procs[p].response.body

\* C11: a search that succeeded returned at most top_k results, each of the
\* requested dataset and of a requested doc type, whatever other datasets the
\* collection holds; without a doc-type filter and with at least one document
\* stored for the dataset the results are not empty.
SearchResultsBounded ==
    \A p \in Slots :
        Done(p, "search") /\ ~Failed(procs[p].response) =>
            /\ Len(Results(p)) <= procs[p].req.top_k
            /\ \A i \in DOMAIN Results(p) :
                  /\ Results(p)[i].source.dataset_id = procs[p].dataset_id
                  /\ Results(p)[i].source.doc_type \in
                         Range(DocTypesValue(procs[p].req.doc_types))
            /\ (procs[p].req.doc_types = None
                   /\ StoredFor(points, procs[p].dataset_id) # {})
                => Results(p) # <<>>

\* A filtered search was answered while both datasets had records in the collection.
SearchResultsWitness ==
    \E p \in Slots :
        /\ Done(p, "search") /\ ~Failed(procs[p].response)
        /\ procs[p].req.doc_types # None /\ Results(p) # <<>>
        /\ \A id \in DatasetIds : StoredFor(points, id) # {}

\* The citation of a document of the dataset, by its doc type.
CitationByType(id, source) ==
    IF source.doc_type = "rows"
    THEN <<"dataset:", id, " rows:">> \o Decimal(source.row_start[1])
             \o <<"-">> \o Decimal(source.row_end[1])
    ELSE <<"dataset:", id>>

\* A record indexed for the dataset has the doc type and the row range of source.
IndexedAs(id, source) ==
    \E q \in StoredFor(points, id) :
        /\ q.payload.doc_type = source.doc_type
        /\ q.payload.row_start = source.row_start /\ q.payload.row_end = source.row_end

\* The answers search_dataset may give to a request on the dataset in a state of
\* the directory and the collection, the embedding service answering.
SearchAnswers(st, stored, size, id, req) ==
    LET checked == search_precheck(st, id, req.doc_types)
    IN  IF Failed(checked) THEN {checked}
        ELSE IF ensure_collection(size, EmbeddingSize(settings)) = 0
        THEN {HTTPException(400, "Embedding size mismatch. Reindex the dataset.")}
        ELSE {Ok(SearchResults(id, hits)) :
                 hits \in Rankings(Matching(stored, id, checked.body), req.top_k)}

\* The step is one of an index request on dataset a in slot p (requests are
\* served one at a time here, so a step that leaves the slot in an index
\* request is a step of that request).
IndexStepOn(p, a) ==
    /\ procs'[p].op = "index" /\ procs'[p].dataset_id = a
    /\ InFlight(p) => procs[p].op = "index"

\* C27: every step of an index request on a dataset, with or without reindex
\* and whether the request succeeds or fails, leaves the records and the
\* IndexMetadata of every other dataset as they were, and a search on the other
\* dataset has the same answers before and after.
IndexLeavesOtherDatasets ==
    [][\A p \in Slots, a \in DatasetIds, b \in DatasetIds :
          IndexStepOn(p, a) /\ b # a =>
              /\ StoredFor(points', b) = StoredFor(points, b)
              /\ IndexMetadataOf(storage', b) = IndexMetadataOf(storage, b)
              /\ \A req \in MultiInputs.searches :
                    SearchAnswers(storage', points', collection', b, req)
                        = SearchAnswers(storage, points, collection, b, req)]_vars

\* An index request with reindex has failed on a dataset, after deleting its
\* records, while the other dataset was indexed with records in the collection.
IndexOtherFailedWitness ==
    \E p \in Slots, b \in DatasetIds :
        /\ Done(p, "index") /\ procs[p].req.reindex /\ Failed(procs[p].response)
        /\ procs[p].dataset_id # b
        /\ procs[p].response = Unhandled
        /\ IndexMetadataOf(storage, b) # None /\ StoredFor(points, b) # {}

\* C23: the citation of a search hit is 'dataset:<id> rows:<a>-<b>' when the hit
\* is a rows document and 'dataset:<id>' otherwise, with the row range of the
\* document that was indexed; a chat passes the citations on unchanged.
CitationsNameRowRanges ==
    \A p \in Slots :
        /\ Done(p, "search") /\ ~Failed(procs[p].response) =>
               \A i \in DOMAIN Results(p) :
                   /\ Results(p)[i].citation =
                          CitationByType(procs[p].dataset_id, Results(p)[i].source)
                   /\ IndexedAs(procs[p].dataset_id, Results(p)[i].source)
        /\ Done(p, "chat") /\ ~Failed(procs[p].response) =>
               \A i \in DOMAIN Results(p).citations :
                   /\ Results(p).citations[i].citation =
                          CitationByType(procs[p].dataset_id, Results(p).citations[i])
                   /\ IndexedAs(procs[p].dataset_id, Results(p).citations[i])

\* A search returned the summary and a rows document of the second dataset.
CitationsWitness ==
    \E p \in Slots :
        /\ Done(p, "search") /\ ~Failed(procs[p].response) /\ procs[p].dataset_id = "d2"
        /\ \E i, j \in DOMAIN Results(p) :
              /\ Results(p)[i].source.doc_type = "summary"
              /\ Results(p)[j].citation = <<"dataset:", "d2", " rows:", "1", "-", "2">>

(***************************************************************************)
(* Properties of the endpoints, one request at a time (SpecAll).           *)
(***************************************************************************)
\* The details of the validation errors: the file name, the dataset id, the
\* columns, the limit, max_rows and rows_per_doc, the column selection, the delimiter.
ValidationDetails ==
    {"Missing filename.", "Invalid filename.", "Only .csv files are allowed.",
     "Invalid dataset_id.", "Unknown column", "Limit must be positive.",
     "Unprocessable Entity", "max_rows must be positive.", "rows_per_doc must be positive.",
     "columns must not be empty.", "Delimiter must be a single character."}

\* This step ends the request of slot p with a validation error.
RaisesValidationError(p) ==
    /\ procs'[p].pc = "done"
    /\ Failed(procs'[p].response)
    /\ procs[p].pc # "done" \/ ~Failed(procs[p].response) \/ procs'[p] # procs[p]
    /\ procs'[p].response.detail \in ValidationDetails

\* C16: a request that ends with a validation error has written nothing: the
\* storage, the records and the collection are as they were when it arrived,
\* and an upload had written no file when the error was raised.
ValidationBeforeAnyWrite ==
    [][\A p \in Slots :
          RaisesValidationError(p) =>
              /\ storage' = storage /\ points' = points /\ collection' = collection
              /\ procs'[p].op = "create" => procs'[p].written = {}]_vars

\* The directory of the dataset holds the metadata.json and the raw.csv of an
\* ingestion that succeeded.
Created(st, id) == st[id].exists /\ st[id].metadata # None /\ st[id].raw # None

\* C19: once a dataset is created, no step of a preview, query, insights, chart
\* suggestion, report, index, reindex, search or chat request changes its
\* metadata.json or its raw.csv, whether the request succeeds or fails; the
\* upload returned the metadata it stored and every get_dataset returns it.
IngestionMetadataKept ==
    [][\A id \in DatasetIds :
          /\ Created(storage, id) =>
                /\ Created(storage', id)
                /\ storage'[id].metadata = storage[id].metadata
                /\ storage'[id].raw = storage[id].raw
          /\ \A p \in Slots :
                /\ procs'[p].pc = "done" /\ procs'[p].op \in {"create", "get"}
                /\ procs'[p].dataset_id = id /\ ~Failed(procs'[p].response)
                => /\ Created(storage', id)
                   /\ procs'[p].response.body = storage'[id].metadata[1]]_vars

\* The metadata was read after the dataset was indexed, profiled and reported on.
IngestionMetadataWitness ==
    \E p \in Slots :
        /\ Done(p, "get") /\ ~Failed(procs[p].response)
        /\ LET dir == storage[procs[p].dataset_id]
           IN  dir.index_metadata # None /\ dir.insights # None /\ dir.report # None

(***************************************************************************)
(* SpecBatches: one request at a time on one dataset, in a service started *)
(* with any settings.rag_embed_batch_size up to MaxBatchSize.              *)
(***************************************************************************)
MaxBatchSize == 3

InitBatches ==
    /\ call = NoCall
    /\ storage = [id \in DatasetIds |-> NoDir]
    /\ points = {}
    /\ collection = 0
    /\ \E batch_size \in 1 .. MaxBatchSize :
          settings = [LLMConfigured EXCEPT !.rag_embed_batch_size = batch_size]
    /\ procs = [p \in Slots |-> Idle]
    /\ clock = 0
    /\ failed_ids = {}

BatchInputs ==
    [limit |-> 1, ops |-> [p \in Slots |-> IF p = 1 THEN Operations ELSE {}],
     upload_ids |-> {"d1"}, datasets |-> {"d1"}, uploads |-> {Upload(GoodUpload, None)},
     index_requests |-> WithReindex(GoodIndexBodies),
     searches |-> {[top_k |-> 2, doc_types |-> None]}, insights |-> {DefaultInsights}]

NextBatches == NextOf(BatchInputs)

SpecBatches == InitBatches /\ [][NextBatches]_vars

\* C20: in an index run, the document at position k (from 0, the summary first)
\* is upserted with the id '<dataset_id>:<k>' whatever the batch size: the
\* documents upserted so far are stored under the ids 0, 1, ... in the order of
\* the build, the ids of the documents of a run are pairwise distinct, the
\* summary has number 0, and a run that succeeded upserted every document.
SequentialPointIds ==
    \A p \in Slots :
        procs[p].op = "index" /\ procs[p].loc # None =>
            LET id == procs[p].dataset_id
                l == procs[p].loc
                n == Len(l.documents)
            IN  /\ \A k \in 0 .. l.vectors_upserted - 1 :
                      \E q \in points : q.id = PointId(id, k) /\ q.payload = l.documents[k + 1]
                /\ \A j, k \in 0 .. n - 1 : j # k => PointId(id, j) # PointId(id, k)
                /\ n > 0 => l.documents[1].doc_type = "summary"
                /\ Indexed(p) => l.vectors_upserted = n

\* Four documents were indexed in batches of three: the second batch holds one.
SequentialIdsWitness ==
    \E p \in Slots :
        /\ Indexed(p) /\ Len(procs[p].loc.documents) = 4
        /\ settings.rag_embed_batch_size = 3

\* The records a build of the dataset with the parameters of the index metadata
\* m makes when it runs at time t.
RecordsOfBuild(st, id, m, t) ==
    BatchPoints(id, iter_documents(st[id].metadata[1], m.params.columns, m.params.max_rows,
                                   m.params.rows_per_doc, t),
                0, EmbeddingSize(settings))

\* The records are those of the build the index metadata of the dataset
\* describes, as many as its nb_docs.
MatchesMetadata(st, stored, id) ==
    /\ st[id].index_metadata # None
    /\ Cardinality(stored) = st[id].index_metadata[1].nb_docs
    /\ \E t \in 0..MaxBuilds : stored = RecordsOfBuild(st, id, st[id].index_metadata[1], t)

\* The index request of slot p found the dataset never indexed, or indexed with
\* its records matching its index metadata.  (A request without reindex leaves
\* index_metadata.json alone until it writes it.)
FoundConsistent(p) ==
    LET id == procs[p].dataset_id
    IN  \/ storage[id].index_metadata = None /\ procs[p].old = {}
        \/ MatchesMetadata(storage, procs[p].old, id)

\* C26 as stated: through any sequence of index requests that succeed, with or
\* without reindex and whatever their parameters, the records stored for the
\* dataset are as many as the nb_docs of its index metadata and are the records
\* of the build it describes: a request that found them so, or that reindexes,
\* leaves them so when it succeeds.
RecordsMatchIndexMetadata ==
    [][\A p \in Slots :
          /\ procs[p].op = "index" /\ procs[p].pc = "write" /\ procs'[p].pc = "done"
          /\ procs[p].req.reindex \/ FoundConsistent(p)
          => MatchesMetadata(storage', StoredFor(points', procs[p].dataset_id),
                             procs[p].dataset_id)]_vars

\* The index request of slot p has failed on a dataset that had index metadata
\* and records when the request arrived.
FailedOnIndexed(p) ==
    /\ Done(p, "index") /\ Failed(procs[p].response)
    /\ procs[p].old_index # None /\ procs[p].old # {}

\* C28 as stated: an index request that fails, with reindex or without, on a
\* dataset that had index metadata and records leaves the index metadata in
\* place, a record under the id of each record it found, and the dataset
\* searchable.
FailedIndexKeepsIndex ==
    \A p \in Slots :
        FailedOnIndexed(p) =>
            /\ IndexMetadataOf(storage, procs[p].dataset_id) = procs[p].old_index
            /\ \A q \in procs[p].old :
                  \E r \in StoredFor(points, procs[p].dataset_id) : r.id = q.id
            /\ ~Failed(search_precheck(storage, procs[p].dataset_id, None))

\* What does hold: a failed request without reindex keeps them.
FailedIndexWithoutReindexKeepsIndex ==
    \A p \in Slots :
        FailedOnIndexed(p) /\ ~procs[p].req.reindex =>
            /\ IndexMetadataOf(storage, procs[p].dataset_id) = procs[p].old_index
            /\ \A q \in procs[p].old :
                  \E r \in StoredFor(points, procs[p].dataset_id) : r.id = q.id
            /\ ~Failed(search_precheck(storage, procs[p].dataset_id, None))

(***************************************************************************)
(* SpecRace: index requests with reindex in both slots and searches in the *)
(* second, on one dataset, two requests at a time, interleaved step by     *)
(* step.                                                                   *)
(***************************************************************************)
RaceInputs ==
    [limit |-> 2,
     ops |-> [p \in Slots |-> IF p = 1 THEN {"create", "index"} ELSE {"index", "search"}],
     upload_ids |-> {"d1"}, datasets |-> {"d1"}, uploads |-> GoodUploads,
     index_requests |-> {[DefaultIndex EXCEPT !.reindex = TRUE]},
     searches |-> {[top_k |-> 2, doc_types |-> Some(<<"rows">>)]},
     insights |-> {DefaultInsights}]

\* The next step of the request in flight in slot p.
RequestStep(p) ==
    \/ IndexDelete(p)
    \/ IndexUnlink(p)
    \/ IndexBuild(p)
    \/ IndexBatch(p)
    \/ IndexWrite(p)
    \/ SearchQuery(p)

NextRace ==
    \E p \in Slots :
        \/ CreateDataset(p, RaceInputs)
        \/ IndexBegin(p, RaceInputs)
        \/ SearchBegin(p, RaceInputs)
        \/ RequestStep(p)

SpecRace == Init /\ [][NextRace]_vars

\* Slot p holds an index request with reindex, in flight, that found the dataset
\* indexed.
Reindexing(p) ==
    /\ procs[p].op = "index" /\ InFlight(p) /\ procs[p].req.reindex
    /\ procs[p].old_index # None /\ procs[p].old # {}

\* C29: requests on the same dataset are not serialized: a request in flight
\* can take its next step whatever the request in the other slot is doing, and
\* while an index request is in flight a search or a second index request on
\* the same dataset can be taken up.
NotSerialized ==
    /\ \A p \in Slots : InFlight(p) => ENABLED RequestStep(p)
    /\ \A p \in Slots :
          procs[p].op = "index" /\ InFlight(p) /\ ~InFlight(3 - p) =>
              /\ "search" \in RaceInputs.ops[3 - p] => ENABLED SearchBegin(3 - p, RaceInputs)
              /\ clock < MaxBuilds => ENABLED IndexBegin(3 - p, RaceInputs)

\* Two index requests with reindex have both succeeded, and the records stored
\* for the dataset come from both builds and are not those of the index
\* metadata written last.
MixedBuildsWitness ==
    /\ \A p \in Slots :
          Done(p, "index") /\ ~Failed(procs[p].response) /\ procs[p].req.reindex
    /\ \E q, r \in StoredFor(points, "d1") : q.payload.created_at # r.payload.created_at
    /\ ~MatchesMetadata(storage, StoredFor(points, "d1"), "d1")

\* While a reindex of an indexed dataset is in progress, a search that can be
\* taken up now is answered "not indexed".
SearchNotIndexedWitness ==
    \E p \in Slots :
        /\ Reindexing(p) /\ Free(3 - p, RaceInputs, "search")
        /\ \A req \in RaceInputs.searches :
              SearchAnswers(storage, points, collection, procs[p].dataset_id, req)
                  = {HTTPException(400, "Dataset not indexed yet.")}

\* While a reindex of an indexed dataset is in progress, a search that passed
\* its checks is about to query a collection without any record of the dataset.
SearchEmptyWitness ==
    \E p \in Slots :
        /\ Reindexing(p)
        /\ procs[3 - p].op = "search" /\ procs[3 - p].pc = "query"
        /\ StoredFor(points, procs[p].dataset_id) = {}

\* The same with some of the records of the new build but not all, and the
\* state in which the search has returned one rows document of several.
SearchPartialWitness ==
    \E p \in Slots :
        /\ Reindexing(p) /\ procs[p].pc = "batch"
        /\ procs[3 - p].op = "search" /\ procs[3 - p].pc = "query"
        /\ StoredFor(points, procs[p].dataset_id) # {}
        /\ Cardinality(StoredFor(points, procs[p].dataset_id)) < Len(procs[p].loc.documents)

SearchPartialAnswerWitness ==
    \E p \in Slots :
        /\ Reindexing(p) /\ procs[p].pc = "batch"
        /\ Done(3 - p, "search") /\ ~Failed(procs[3 - p].response)
        /\ Len(Results(3 - p)) = 1
        /\ Cardinality(Matching(procs[p].old, procs[p].dataset_id, <<"rows">>)) > 1

(***************************************************************************)
(* SpecModels: one request at a time on one dataset, in a service that may *)
(* be restarted with another embedding model configured.                   *)
(***************************************************************************)
\* The service is stopped and started again with another
\* settings.rag_embedding_model: the storage directory and the collection are
\* kept, get_embedding_service loads the new model at its first call.
Restart ==
    /\ \A p \in Slots : ~InFlight(p)
    /\ \E model \in EmbeddingModels \ {settings.rag_embedding_model} :
          settings' = [settings EXCEPT !.rag_embedding_model = model]
    /\ procs' = [p \in Slots |-> Idle]
    /\ UNCHANGED <<call, storage, points, collection, clock, failed_ids>>

ModelInputs ==
    [limit |-> 1, ops |-> [p \in Slots |-> IF p = 1 THEN Operations ELSE {}],
     upload_ids |-> {"d1"}, datasets |-> {"d1"}, uploads |-> {Upload(GoodUpload, None)},
     index_requests |-> WithReindex({DefaultIndex}),
     searches |-> {[top_k |-> 2, doc_types |-> None]}, insights |-> {DefaultInsights}]

NextModels ==
    \/ NextOf(ModelInputs)
    \/ Restart

SpecModels == Init /\ [][NextModels]_vars

SizeMismatch == HTTPException(400, "Embedding size mismatch. Reindex the dataset.")

\* The request of slot p is about to embed and to open the collection, which
\* exists with another vector size than the one the embedding model gives.
MeetsMismatch(p) ==
    /\ collection # 0 /\ collection # EmbeddingSize(settings)
    /\ \/ procs[p].op = "index" /\ procs[p].pc = "batch" /\ ~procs[p].loc.vector_store
       \/ procs[p].op \in {"search", "chat"} /\ procs[p].pc = "query"

\* C18: while the collection exists with a vector size other than the length of
\* the embeddings, index_dataset and search_dataset end with 'Embedding size
\* mismatch. Reindex the dataset.' (unless the embedding itself raised); no step
\* deletes the collection or changes its size, and every record in it has a
\* vector of the size of the collection.
MismatchIsAnError ==
    [][/\ \A p \in Slots :
             MeetsMismatch(p) /\ procs'[p].calls # procs[p].calls =>
                 /\ procs'[p].pc = "done"
                 /\ procs'[p].response \in {SizeMismatch, Unhandled}
       /\ collection # 0 => collection' = collection
       /\ \A q \in points' : q.vector_size = collection']_vars

\* A search of an indexed dataset was refused after the embedding model changed.
MismatchWitness ==
    \E p \in Slots :
        /\ Done(p, "search") /\ procs[p].response = SizeMismatch
        /\ collection # EmbeddingSize(settings)
        /\ StoredFor(points, procs[p].dataset_id) # {}

=============================================================================
